---- MODULE Spec2Model ----
(***************************************************************************)
(* Virtio PCI transport: capability discovery, BAR mapping, register       *)
(* access of the Legacy and Modern backends, and the earlier Device that   *)
(* embeds the transport logic.                                             *)
(*                                                                         *)
(* Two generations of the driver are in the tree; `gen` says which one a   *)
(* behaviour runs:                                                         *)
(*   "backend" : PciBackend::Bind + PciModernBackend::Init / MapBar        *)
(*   "device"  : Device::Bind / Device::MapBar (transport embedded)        *)
(***************************************************************************)
EXTENDS Integers, Sequences, FiniteSets, TLC

(***************************************************************************)
(* Bounds of the model.                                                    *)
(***************************************************************************)
\* Longest capability list placed in configuration space.
MaxCaps == 5
\* Largest device-config offset a 64-bit access is made at.
MaxCfgOff == 1
\* Most calls of StartIrqThread on one Device.
MaxThreads == 2
\* Most pages in a range handed to PinnedMemoryObject::Create.
MaxPages == 4

(***************************************************************************)
(* Program constants.                                                      *)
(***************************************************************************)
kPciCapIdVendor == 9
kPciCapIdMsi == 5
\* "only loop so many times in case things out of whack"
kMaxCapIter == 64
\* countof(bar_)
BarCount == 6
PAGE_SIZE == 4096
ZX_HANDLE_INVALID == 0

\* Legacy (port-mapped) register offsets from the I/O base.
VIRTIO_PCI_QUEUE_PFN == 8
VIRTIO_PCI_QUEUE_SIZE == 12
VIRTIO_PCI_QUEUE_SELECT == 14
VIRTIO_PCI_QUEUE_NOTIFY == 16
VIRTIO_PCI_DEVICE_STATUS == 18
VIRTIO_PCI_ISR_STATUS == 19
VIRTIO_PCI_CONFIG_OFFSET_NOMSIX == 20

\* offsetof(virtio_pci_common_cfg_t, field)
CC_DEVICE_STATUS == 20
CC_QUEUE_SELECT == 22
CC_QUEUE_SIZE == 24
CC_QUEUE_ENABLE == 28
CC_QUEUE_NOTIFY_OFF == 30
CC_QUEUE_DESC == 32
CC_QUEUE_AVAIL == 40
CC_QUEUE_USED == 48

VIRTIO_STATUS_ACKNOWLEDGE == 1
VIRTIO_STATUS_DRIVER == 2
VIRTIO_STATUS_DRIVER_OK == 4
VIRTIO_STATUS_FEATURES_OK == 8

\* number of virtqueues the device implements
NumQueues == 4

ZX_OK == "ZX_OK"
ZX_ERR_BAD_STATE == "ZX_ERR_BAD_STATE"
ZX_ERR_INVALID_ARGS == "ZX_ERR_INVALID_ARGS"
ZX_ERR_NOT_SUPPORTED == "ZX_ERR_NOT_SUPPORTED"
\* the literal -1 returned by Bind
ZX_ERR_INTERNAL == "ZX_ERR_INTERNAL"
\* whatever status a failing bus primitive hands back
ZX_ERR_BUS == "ZX_ERR_NO_RESOURCES"

COMMON_CFG == "VIRTIO_PCI_CAP_COMMON_CFG"
NOTIFY_CFG == "VIRTIO_PCI_CAP_NOTIFY_CFG"
ISR_CFG == "VIRTIO_PCI_CAP_ISR_CFG"
DEVICE_CFG == "VIRTIO_PCI_CAP_DEVICE_CFG"
PCI_CFG == "VIRTIO_PCI_CAP_PCI_CFG"
\* a cfg_type for which the switch has no case
UNKNOWN_CFG == "unknown"

VARIABLES
    gen,          \* which driver generation runs: "backend" or "device"
    caps,         \* configuration space: the capability records, in list order
    tail,         \* next pointer of the last record: 0, or 1 (back to the first)
    pc,           \* "idle" (constructed), "walk", "post", "done"
    off,          \* capability offset the walk is at (0: end of list)
    i,            \* Device::Bind's loop counter
    bar_,         \* bar_[0..5]: [mmio_base, mmio_handle]
    regs,         \* resolved register addresses and the notify multiplier
    bar0_pio_base_,
    irq_handle_,
    ret,          \* status returned by Bind ("none" while it runs)
    bus_calls,    \* bus primitives Bind has invoked, in order: [call, ok]
    map_ok,       \* per BAR: successful pci_map_resource invocations so far
    mapbar,       \* the MapBar call of the last step: [bar, st, prim], or NoCall
    cap_reads,    \* capability records read by the walk so far, modulo 2
    impl,         \* driver object in use: "modern", "legacy" (backends), "device"
    legacy_,      \* PciLegacyBackend: [bar0_base_, device_cfg_offset_]
    dev,          \* the device's registers, as the hardware holds them
    io,           \* register accesses made by the last operation, in order
    last,         \* the last operation: its name, arguments and result
    phase,        \* where the calling driver is in bring-up
    backend_,     \* Device::backend_: "live", or "null" once reset
    thr,          \* the interrupt-service threads created for the Device
    backend_lock_,\* holder of Backend::backend_lock_ (0: free)
    callers,      \* threads calling into the Backend: what each has left to do
    bus,          \* register accesses since the bus was last idle: [who, acc]
    copy,         \* Device::CopyDeviceConfig in progress: its counter and buffer
    frames,       \* per thread: the Backend functions it is inside, outermost first
    pmo           \* PinnedMemoryObject::Create, the object it makes, the VMO and the IOMMU

discVars == <<gen, caps, tail, pc, off, i, bar_, regs, bar0_pio_base_,
              irq_handle_, ret, bus_calls, map_ok, mapbar, cap_reads>>

regVars == <<impl, legacy_, dev, io, last>>

\* discVars without irq_handle_
bindVars == <<gen, caps, tail, pc, off, i, bar_, regs, bar0_pio_base_,
              ret, bus_calls, map_ok, mapbar, cap_reads>>

lifeVars == <<phase>>
irqVars == <<backend_, thr>>
lockVars == <<backend_lock_, callers, bus>>
copyVars == <<copy>>
extVars == <<frames, pmo>>
auxVars == <<lifeVars, irqVars, lockVars, copyVars, extVars>>

vars == <<discVars, regVars, auxVars>>

Bars == 0..(BarCount - 1)

NoCall == [bar |-> -1, st |-> "none", prim |-> FALSE]

(***************************************************************************)
(* Configuration space.  A record is addressed by its position in the      *)
(* list (1..Len(caps)); 0 is the null offset.                              *)
(***************************************************************************)
CapKinds ==
    << [cap_vndr |-> kPciCapIdVendor, cfg_type |-> COMMON_CFG, bar |-> 0, offset |-> 0,    mul |-> 0],
       [cap_vndr |-> kPciCapIdVendor, cfg_type |-> NOTIFY_CFG, bar |-> 0, offset |-> 256,  mul |-> 4],
       [cap_vndr |-> kPciCapIdMsi,    cfg_type |-> COMMON_CFG, bar |-> 0, offset |-> 0,    mul |-> 0],
       [cap_vndr |-> kPciCapIdVendor, cfg_type |-> ISR_CFG,    bar |-> 1, offset |-> 0,    mul |-> 0],
       [cap_vndr |-> kPciCapIdVendor, cfg_type |-> DEVICE_CFG, bar |-> 1, offset |-> 512,  mul |-> 0],
       [cap_vndr |-> kPciCapIdVendor, cfg_type |-> PCI_CFG,    bar |-> 0, offset |-> 768,  mul |-> 0],
       [cap_vndr |-> kPciCapIdVendor, cfg_type |-> NOTIFY_CFG, bar |-> 1, offset |-> 1024, mul |-> 2],
       [cap_vndr |-> kPciCapIdVendor, cfg_type |-> UNKNOWN_CFG, bar |-> 1, offset |-> 1280, mul |-> 0] >>

\* the passthrough record treated as one more register region
SlotTypes_WithPciCfg == {COMMON_CFG, NOTIFY_CFG, ISR_CFG, DEVICE_CFG, PCI_CFG}

\* the config types whose case maps a BAR and stores an address
SlotTypes == {COMMON_CFG, NOTIFY_CFG, ISR_CFG, DEVICE_CFG}

\* the records picked by S, in the order of CapKinds
ListOf(S) ==
    LET n == Cardinality(S)
        ix == CHOOSE f \in [1..n -> S] : \A a, b \in 1..n : a < b => f[a] < f[b]
    IN [k \in 1..n |-> CapKinds[ix[k]]]

Reverse(s) == [k \in 1..Len(s) |-> s[Len(s) + 1 - k]]

\* every choice of at most MaxCaps distinct records, listed in either direction
CapLists ==
    UNION { {ListOf(S), Reverse(ListOf(S))} :
            S \in {T \in SUBSET (1..Len(CapKinds)) : Cardinality(T) <= MaxCaps} }

\* cap_next of the record at offset k
NextPtr(k) == IF k < Len(caps) THEN k + 1 ELSE tail

\* pci_config_->capabilities_ptr
CapabilitiesPtr == IF Len(caps) = 0 THEN 0 ELSE 1

RECURSIVE FindCap(_, _, _)
FindCap(ptr, type, limit) ==
    IF ptr = 0 \/ limit = 0 THEN 0
    ELSE IF caps[ptr].cap_vndr = type THEN ptr
    ELSE FindCap(NextPtr(ptr), type, limit - 1)

\* get-next capability of a type: follows the next pointer of the record at
\* `offset` to the first record of that type, 0 when none is left.
pci_get_next_capability(offset, type) == FindCap(NextPtr(offset), type, kMaxCapIter)

pci_get_first_capability(type) == FindCap(CapabilitiesPtr, type, kMaxCapIter)

(***************************************************************************)
(* pci_map_resource: every successful mapping of a BAR is a fresh mapping  *)
(* (n counts the earlier ones), so a re-map would move the base.           *)
(***************************************************************************)
MapResourceBase(bar, n) == 65536 * (bar + 1) + 4096 * n
MapResourceHandle(bar, n) == 16 * (n + 1) + bar

\* MapBar without the "already mapped" test: every call maps again.
MapBar_Remap(bars, bar, prim_ok) ==
    IF bar >= BarCount
    THEN [st |-> ZX_ERR_INVALID_ARGS, bars |-> bars, prim |-> FALSE]
    ELSE IF ~prim_ok
    THEN [st |-> ZX_ERR_BUS, bars |-> bars, prim |-> TRUE]
    ELSE [st |-> ZX_OK,
          bars |-> [bars EXCEPT ![bar] =
                       [mmio_base |-> MapResourceBase(bar, map_ok[bar]),
                        mmio_handle |-> MapResourceHandle(bar, map_ok[bar])]],
          prim |-> TRUE]

(***************************************************************************)
(* PciModernBackend::MapBar.  prim_ok: whether pci_map_resource succeeds   *)
(* if it is invoked.  Result: status, the new bar_ array, and whether the  *)
(* primitive was invoked.                                                  *)
(***************************************************************************)
MapBar(bars, bar, prim_ok) ==
    IF bar >= BarCount
    THEN [st |-> ZX_ERR_INVALID_ARGS, bars |-> bars, prim |-> FALSE]
    ELSE IF bars[bar].mmio_handle # ZX_HANDLE_INVALID
    THEN [st |-> ZX_OK, bars |-> bars, prim |-> FALSE]
    ELSE IF ~prim_ok
    THEN [st |-> ZX_ERR_BUS, bars |-> bars, prim |-> TRUE]
    ELSE [st |-> ZX_OK,
          bars |-> [bars EXCEPT ![bar] =
                       [mmio_base |-> MapResourceBase(bar, map_ok[bar]),
                        mmio_handle |-> MapResourceHandle(bar, map_ok[bar])]],
          prim |-> TRUE]

(***************************************************************************)
(* Device::MapBar (embedded transport): no range check on the index; the   *)
(* primitive writes the base straight into bar_[i].mmio_base.              *)
(***************************************************************************)
DeviceMapBar(bars, bar, prim_ok) ==
    IF bars[bar].mmio_handle # ZX_HANDLE_INVALID
    THEN [st |-> ZX_OK, bars |-> bars, prim |-> FALSE]
    ELSE IF ~prim_ok
    THEN [st |-> ZX_ERR_BUS, bars |-> bars, prim |-> TRUE]
    ELSE [st |-> ZX_OK,
          bars |-> [bars EXCEPT ![bar] =
                       [mmio_base |-> MapResourceBase(bar, map_ok[bar]),
                        mmio_handle |-> MapResourceHandle(bar, map_ok[bar])]],
          prim |-> TRUE]

\* bookkeeping of a MapBar call: the call record and the success count
NoteMapBar(bar, m) ==
    /\ mapbar' = [bar |-> bar, st |-> m.st, prim |-> m.prim]
    /\ map_ok' = IF m.prim /\ m.st = ZX_OK
                 THEN [map_ok EXCEPT ![bar] = @ + 1]
                 ELSE map_ok

(***************************************************************************)
(* The common prelude of PciBackend::Bind and Device::Bind: bus mastering, *)
(* interrupt mode (MSI, then legacy), interrupt mapping.  The outcome is   *)
(* [st, calls, irq]: st = ZX_OK when all steps succeeded.                  *)
(***************************************************************************)
\* a bus primitive invoked by Bind, and whether it succeeded
Call(name, ok) == [call |-> name, ok |-> ok]

\* the prelude going on to Init although pci_map_interrupt failed
BindPrelude_IgnoreMapFailure(bm_ok, msi_ok, legacy_ok, irq_ok) ==
    IF ~bm_ok
    THEN [st |-> ZX_ERR_BUS, calls |-> <<Call("enable_bus_master", FALSE)>>,
          irq |-> ZX_HANDLE_INVALID]
    ELSE IF ~msi_ok /\ ~legacy_ok
    THEN [st |-> ZX_ERR_INTERNAL,
          calls |-> <<Call("enable_bus_master", TRUE), Call("set_irq_mode_msi", FALSE),
                      Call("set_irq_mode_legacy", FALSE)>>,
          irq |-> ZX_HANDLE_INVALID]
    ELSE LET modes == IF msi_ok THEN <<Call("set_irq_mode_msi", TRUE)>>
                      ELSE <<Call("set_irq_mode_msi", FALSE), Call("set_irq_mode_legacy", TRUE)>>
             calls == <<Call("enable_bus_master", TRUE)>> \o modes
         IN [st |-> ZX_OK, calls |-> calls \o <<Call("map_interrupt", irq_ok)>>,
             irq |-> IF irq_ok THEN 1 ELSE ZX_HANDLE_INVALID]

\* the prelude asking for the line-based mode first
BindPrelude_LegacyFirst(bm_ok, msi_ok, legacy_ok, irq_ok) ==
    IF ~bm_ok
    THEN [st |-> ZX_ERR_BUS, calls |-> <<Call("enable_bus_master", FALSE)>>,
          irq |-> ZX_HANDLE_INVALID]
    ELSE IF ~msi_ok /\ ~legacy_ok
    THEN [st |-> ZX_ERR_INTERNAL,
          calls |-> <<Call("enable_bus_master", TRUE), Call("set_irq_mode_legacy", FALSE),
                      Call("set_irq_mode_msi", FALSE)>>,
          irq |-> ZX_HANDLE_INVALID]
    ELSE LET modes == IF legacy_ok THEN <<Call("set_irq_mode_legacy", TRUE)>>
                      ELSE <<Call("set_irq_mode_legacy", FALSE), Call("set_irq_mode_msi", TRUE)>>
             calls == <<Call("enable_bus_master", TRUE)>> \o modes
         IN IF ~irq_ok
            THEN [st |-> ZX_ERR_BUS, calls |-> calls \o <<Call("map_interrupt", FALSE)>>,
                  irq |-> ZX_HANDLE_INVALID]
            ELSE [st |-> ZX_OK, calls |-> calls \o <<Call("map_interrupt", TRUE)>>, irq |-> 1]

BindPrelude(bm_ok, msi_ok, legacy_ok, irq_ok) ==
    IF ~bm_ok
    THEN [st |-> ZX_ERR_BUS, calls |-> <<Call("enable_bus_master", FALSE)>>,
          irq |-> ZX_HANDLE_INVALID]
    ELSE IF ~msi_ok /\ ~legacy_ok
    THEN [st |-> ZX_ERR_INTERNAL,
          calls |-> <<Call("enable_bus_master", TRUE), Call("set_irq_mode_msi", FALSE),
                      Call("set_irq_mode_legacy", FALSE)>>,
          irq |-> ZX_HANDLE_INVALID]
    ELSE LET modes == IF msi_ok THEN <<Call("set_irq_mode_msi", TRUE)>>
                      ELSE <<Call("set_irq_mode_msi", FALSE), Call("set_irq_mode_legacy", TRUE)>>
             calls == <<Call("enable_bus_master", TRUE)>> \o modes
         IN IF ~irq_ok
            THEN [st |-> ZX_ERR_BUS, calls |-> calls \o <<Call("map_interrupt", FALSE)>>,
                  irq |-> ZX_HANDLE_INVALID]
            ELSE [st |-> ZX_OK, calls |-> calls \o <<Call("map_interrupt", TRUE)>>, irq |-> 1]

\* the check of Init with the notify slot forgotten
AllResolved_NoNotify(r) ==
    /\ r.common_cfg # 0
    /\ r.isr_status # 0
    /\ r.device_cfg # 0

(***************************************************************************)
(* The four required slots.                                                *)
(***************************************************************************)
AllResolved(r) ==
    /\ r.common_cfg # 0
    /\ r.isr_status # 0
    /\ r.device_cfg # 0
    /\ r.notify_base # 0

(***************************************************************************)
(* PciBackend::Bind up to the call of Init, and the loop initialiser of    *)
(* PciModernBackend::Init.                                                 *)
(***************************************************************************)
Bind ==
    /\ gen = "backend"
    /\ pc = "idle"
    /\ \E bm_ok, msi_ok, legacy_ok, irq_ok \in BOOLEAN :
         LET p == BindPrelude(bm_ok, msi_ok, legacy_ok, irq_ok) IN
           /\ bus_calls' = p.calls
           /\ irq_handle_' = p.irq
           /\ IF p.st # ZX_OK
              THEN /\ ret' = p.st
                   /\ pc' = "done"
                   /\ off' = off
              ELSE /\ ret' = ret
                   /\ pc' = "walk"
                   /\ off' = pci_get_first_capability(kPciCapIdVendor)
    /\ mapbar' = NoCall
    /\ UNCHANGED <<gen, caps, tail, i, bar_, regs, bar0_pio_base_, map_ok, cap_reads>>
    /\ UNCHANGED <<regVars, auxVars>>

(***************************************************************************)
(* One iteration of the capability loop of PciModernBackend::Init: read    *)
(* the record at off, dispatch on cfg_type, advance.                       *)
(***************************************************************************)
InitStep ==
    /\ gen = "backend"
    /\ pc = "walk"
    /\ off # 0
    /\ \E prim_ok \in BOOLEAN :
         LET cap == caps[off]
             m == MapBar(bar_, cap.bar, prim_ok)
             addr == m.bars[cap.bar].mmio_base + cap.offset
         IN
           IF cap.cfg_type \in SlotTypes
           THEN /\ NoteMapBar(cap.bar, m)
                /\ bar_' = m.bars
                /\ regs' =
                     LET r0 == IF cap.cfg_type = NOTIFY_CFG
                               THEN [regs EXCEPT !.notify_off_mul = cap.mul]
                               ELSE regs
                     IN IF m.st # ZX_OK THEN r0
                        ELSE IF cap.cfg_type = COMMON_CFG
                        THEN [r0 EXCEPT !.common_cfg = addr]
                        ELSE IF cap.cfg_type = NOTIFY_CFG
                        THEN [r0 EXCEPT !.notify_base = addr]
                        ELSE IF cap.cfg_type = ISR_CFG
                        THEN [r0 EXCEPT !.isr_status = addr]
                        ELSE [r0 EXCEPT !.device_cfg = addr]
           ELSE /\ mapbar' = NoCall
                /\ UNCHANGED <<bar_, regs, map_ok>>
    /\ off' = pci_get_next_capability(off, kPciCapIdVendor)
    /\ cap_reads' = 1 - cap_reads
    /\ UNCHANGED <<gen, caps, tail, pc, i, bar0_pio_base_, irq_handle_, ret, bus_calls>>
    /\ UNCHANGED <<regVars, auxVars>>

(***************************************************************************)
(* The end of PciModernBackend::Init: the loop has left (off = 0); check   *)
(* the four slots.  Bind returns Init's status.                            *)
(***************************************************************************)
InitCheck ==
    /\ gen = "backend"
    /\ pc = "walk"
    /\ off = 0
    /\ ret' = IF AllResolved(regs) THEN ZX_OK ELSE ZX_ERR_BAD_STATE
    /\ pc' = "done"
    /\ mapbar' = NoCall
    /\ UNCHANGED <<gen, caps, tail, off, i, bar_, regs, bar0_pio_base_,
                   irq_handle_, bus_calls, map_ok, cap_reads>>
    /\ UNCHANGED <<regVars, auxVars>>

(***************************************************************************)
(* Device::Bind (embedded transport) up to the capability loop: the same   *)
(* prelude, then the NEW_CAPS test and the loop initialiser.  A device     *)
(* with no capability list has PCI_STATUS_NEW_CAPS clear.                  *)
(***************************************************************************)
DeviceBind ==
    /\ gen = "device"
    /\ pc = "idle"
    /\ \E bm_ok, msi_ok, legacy_ok, irq_ok \in BOOLEAN :
         LET p == BindPrelude(bm_ok, msi_ok, legacy_ok, irq_ok) IN
           /\ bus_calls' = p.calls
           /\ irq_handle_' = p.irq
           /\ IF p.st # ZX_OK
              THEN /\ ret' = p.st
                   /\ pc' = "done"
                   /\ off' = off
              ELSE /\ ret' = ret
                   /\ pc' = IF Len(caps) > 0 THEN "walk" ELSE "post"
                   /\ off' = CapabilitiesPtr
    /\ mapbar' = NoCall
    /\ UNCHANGED <<gen, caps, tail, i, bar_, regs, bar0_pio_base_, map_ok, cap_reads>>
    /\ UNCHANGED <<regVars, auxVars>>

(***************************************************************************)
(* One iteration of the capability loop of Device::Bind.  MapBar's status  *)
(* is not looked at; the slot is assigned from bar_[bar].mmio_base either  *)
(* way.  The loop leaves on cap_next == 0 (i stays) or when i reaches      *)
(* kMaxCapIter.                                                            *)
(***************************************************************************)
DeviceBindStep ==
    /\ gen = "device"
    /\ pc = "walk"
    /\ i < kMaxCapIter
    /\ IF off > PAGE_SIZE
       THEN /\ ret' = ZX_ERR_INVALID_ARGS
            /\ pc' = "done"
            /\ mapbar' = NoCall
            /\ UNCHANGED <<off, i, bar_, regs, map_ok, cap_reads>>
       ELSE /\ \E prim_ok \in BOOLEAN :
                 LET cap == caps[off]
                     m == DeviceMapBar(bar_, cap.bar, prim_ok)
                     addr == m.bars[cap.bar].mmio_base + cap.offset
                 IN
                   IF /\ cap.cap_vndr = kPciCapIdVendor
                      /\ cap.cfg_type \in SlotTypes
                   THEN /\ NoteMapBar(cap.bar, m)
                        /\ bar_' = m.bars
                        /\ regs' =
                             IF cap.cfg_type = COMMON_CFG
                             THEN [regs EXCEPT !.common_cfg = addr]
                             ELSE IF cap.cfg_type = NOTIFY_CFG
                             THEN [regs EXCEPT !.notify_base = addr,
                                               !.notify_off_mul = cap.mul]
                             ELSE IF cap.cfg_type = ISR_CFG
                             THEN [regs EXCEPT !.isr_status = addr]
                             ELSE [regs EXCEPT !.device_cfg = addr]
                   ELSE /\ mapbar' = NoCall
                        /\ UNCHANGED <<bar_, regs, map_ok>>
            /\ off' = NextPtr(off)
            /\ cap_reads' = 1 - cap_reads
            /\ i' = IF NextPtr(off) = 0 THEN i ELSE i + 1
            /\ pc' = IF NextPtr(off) = 0 \/ i + 1 >= kMaxCapIter THEN "post" ELSE "walk"
            /\ ret' = ret
    /\ UNCHANGED <<gen, caps, tail, bar0_pio_base_, irq_handle_, bus_calls>>
    /\ UNCHANGED <<regVars, auxVars>>

\* pci_config_->base_addresses[0]: a memory BAR, a port BAR below 64K, a
\* port-flagged BAR above 64K
Bar0Addrs == {131072, 49153, 65537}

(***************************************************************************)
(* Device::Bind after the loop: the BAR0 fallback when not all four slots  *)
(* were found, and the return.                                             *)
(***************************************************************************)
DeviceBindPost ==
    /\ gen = "device"
    /\ pc = "post"
    /\ \E bar0 \in Bar0Addrs, prim_ok, mmap_ok, pio_ok \in BOOLEAN :
         LET found == /\ regs.common_cfg # 0 /\ regs.notify_base # 0
                      /\ regs.isr_status # 0 /\ regs.device_cfg # 0
             pio == bar0 - (bar0 % 2)
             m == DeviceMapBar(bar_, 0, prim_ok)
         IN
           IF found \/ bar0 % 2 = 0
           THEN /\ ret' = ZX_OK
                /\ mapbar' = NoCall
                /\ UNCHANGED <<bar_, bar0_pio_base_, map_ok>>
           ELSE IF pio > 65535
           THEN /\ bar0_pio_base_' = 0
                /\ NoteMapBar(0, m)
                /\ bar_' = m.bars
                /\ ret' = IF m.st # ZX_OK THEN m.st
                          ELSE IF ~pio_ok THEN ZX_ERR_INTERNAL ELSE ZX_OK
           ELSE /\ bar0_pio_base_' = pio
                /\ mapbar' = NoCall
                /\ UNCHANGED <<bar_, map_ok>>
                /\ ret' = IF ~mmap_ok THEN ZX_ERR_BUS
                          ELSE IF ~pio_ok THEN ZX_ERR_INTERNAL ELSE ZX_OK
    /\ pc' = "done"
    /\ UNCHANGED <<gen, caps, tail, off, i, regs, irq_handle_, bus_calls, cap_reads>>
    /\ UNCHANGED <<regVars, auxVars>>

InitRegs == [common_cfg |-> 0, notify_base |-> 0, isr_status |-> 0,
             device_cfg |-> 0, notify_off_mul |-> 0]

(***************************************************************************)
(* Register values.  A value up to 16 bits wide is a number; in a register *)
(* access every value is the little-endian sequence of its bytes, so that  *)
(* 32- and 64-bit quantities keep their full width.                        *)
(***************************************************************************)
Byte(v, k) == IF k \in DOMAIN v THEN v[k] ELSE 0

\* static_cast<uint8_t>, static_cast<uint16_t>, and back
U8(n) == <<n % 256>>
U16(n) == <<n % 256, (n \div 256) % 256>>
N8(b) == b[1]
N16(b) == b[1] + 256 * b[2]

\* value & UINT32_MAX, value >> 32, static_cast<uint32_t>(value) of a uint64_t
AndU32Max(v) == [k \in 1..8 |-> IF k <= 4 THEN v[k] ELSE 0]
Shr32(v) == [k \in 1..8 |-> Byte(v, k + 4)]
CastU32(v) == [k \in 1..4 |-> v[k]]

\* pa / 4096 of a 64-bit address: a shift right by 8 + 4 bits
DivPage(v) == [k \in 1..8 |-> (Byte(v, k + 1) \div 16) + 16 * (Byte(v, k + 2) % 16)]

\* the uint64_t whose two uint32_t halves are lo and hi (val[0], val[1])
Join64_Swapped(lo, hi) == hi \o lo

Join64(lo, hi) == lo \o hi

\* a 16-bit port number: static_cast<uint16_t>(...) and (...) & 0xffff
Port(n) == n % 65536

HasBit(n, b) == (n \div b) % 2 = 1
StatusBitValues == {1, 2, 4, 8, 16, 32, 64, 128}

RECURSIVE SumOf(_)
SumOf(S) == IF S = {} THEN 0 ELSE LET x == CHOOSE y \in S : TRUE IN x + SumOf(S \ {x})

\* a | b and a & b on uint8_t
BitOr(a, b) == SumOf({k \in StatusBitValues : HasBit(a, k) \/ HasBit(b, k)})
BitAnd(a, b) == SumOf({k \in StatusBitValues : HasBit(a, k) /\ HasBit(b, k)})

(***************************************************************************)
(* The device.  Its register file holds what the driver's accesses put     *)
(* there: a queue-select register, per-queue registers banked behind it, a *)
(* byte-addressed device-config block and the status byte.  A device that  *)
(* does not accept the negotiated features leaves FEATURES_OK clear.       *)
(***************************************************************************)
QueueIds == 0..(NumQueues - 1)

Zero32 == [k \in 1..4 |-> 0]
Zero64 == [k \in 1..8 |-> 0]

CfgBytes == 0..(MaxCfgOff + 7)

DevInit(noff, accepts) ==
    [queue_select |-> 0,
     queues |-> [q \in QueueIds |->
                   [size |-> 128 * (q + 1), enable |-> 0, notify_off |-> q + noff,
                    desc |-> Zero64, avail |-> Zero64, used |-> Zero64,
                    pfn |-> Zero32]],
     cfg |-> [a \in CfgBytes |-> 16 + a],
     status |-> 0,
     isr |-> 0,
     accepts |-> accepts]

\* an access: a read or a write of `width` bits at an address of a space
Wr(space, addr, bytes) ==
    [rw |-> "w", space |-> space, addr |-> addr, width |-> 8 * Len(bytes), val |-> bytes]

\* where the legacy register block sits in a space
LegacyBase(space) ==
    IF space = "pio"
    THEN (IF impl = "legacy" THEN legacy_.bar0_base_ ELSE bar0_pio_base_)
    ELSE bar_[0].mmio_base

\* bytes b stored over old from position at + 1 on
Patch(old, at, b) ==
    [k \in DOMAIN old |-> IF k > at /\ k <= at + Len(b) THEN b[k - at] ELSE old[k]]

StatusWrite(d, v) ==
    IF HasBit(v, VIRTIO_STATUS_FEATURES_OK) /\ ~d.accepts
    THEN [d EXCEPT !.status = v - VIRTIO_STATUS_FEATURES_OK]
    ELSE [d EXCEPT !.status = v]

CfgWrite(d, at, b) ==
    [d EXCEPT !.cfg = [a \in CfgBytes |->
         IF a >= at /\ a < at + Len(b) THEN b[a - at + 1] ELSE d.cfg[a]]]

CfgRead(d, at, n) == [k \in 1..n |-> IF at + k - 1 \in CfgBytes THEN d.cfg[at + k - 1] ELSE 0]

\* The device's side of a write access.
DevWrite(d, a) ==
    LET sel == d.queue_select
        cc == a.addr - regs.common_cfg
        dc == a.addr - regs.device_cfg
        lg == a.addr - LegacyBase(a.space)
        SetQ(f, v) == IF sel \in QueueIds THEN [d EXCEPT !.queues[sel][f] = v] ELSE d
        Q(f) == IF sel \in QueueIds THEN d.queues[sel][f] ELSE Zero64
    IN
      IF regs.common_cfg # 0
      THEN IF a.space # "mmio" THEN d
           ELSE IF cc = CC_QUEUE_SELECT THEN [d EXCEPT !.queue_select = N16(a.val)]
           ELSE IF cc = CC_QUEUE_SIZE THEN SetQ("size", N16(a.val))
           ELSE IF cc = CC_QUEUE_ENABLE THEN SetQ("enable", N16(a.val))
           ELSE IF cc = CC_QUEUE_DESC THEN SetQ("desc", Patch(Q("desc"), 0, a.val))
           ELSE IF cc = CC_QUEUE_DESC + 4 THEN SetQ("desc", Patch(Q("desc"), 4, a.val))
           ELSE IF cc = CC_QUEUE_AVAIL THEN SetQ("avail", Patch(Q("avail"), 0, a.val))
           ELSE IF cc = CC_QUEUE_AVAIL + 4 THEN SetQ("avail", Patch(Q("avail"), 4, a.val))
           ELSE IF cc = CC_QUEUE_USED THEN SetQ("used", Patch(Q("used"), 0, a.val))
           ELSE IF cc = CC_QUEUE_USED + 4 THEN SetQ("used", Patch(Q("used"), 4, a.val))
           ELSE IF cc = CC_DEVICE_STATUS THEN StatusWrite(d, N8(a.val))
           ELSE IF regs.device_cfg # 0 /\ dc >= 0 /\ dc \in CfgBytes THEN CfgWrite(d, dc, a.val)
           ELSE d
      ELSE IF lg = VIRTIO_PCI_QUEUE_SELECT THEN [d EXCEPT !.queue_select = N16(a.val)]
           ELSE IF lg = VIRTIO_PCI_QUEUE_PFN THEN SetQ("pfn", a.val)
           ELSE IF lg = VIRTIO_PCI_DEVICE_STATUS THEN StatusWrite(d, N8(a.val))
           ELSE IF lg >= VIRTIO_PCI_CONFIG_OFFSET_NOMSIX
           THEN CfgWrite(d, lg - VIRTIO_PCI_CONFIG_OFFSET_NOMSIX, a.val)
           ELSE d

\* The device's side of a read access of n bytes.
DevRead(d, space, addr, n) ==
    LET sel == d.queue_select
        cc == addr - regs.common_cfg
        dc == addr - regs.device_cfg
        lg == addr - LegacyBase(space)
        Q(f) == IF sel \in QueueIds THEN d.queues[sel][f] ELSE 0
        zero == [k \in 1..n |-> 0]
    IN
      IF regs.common_cfg # 0
      THEN IF space # "mmio" THEN zero
           ELSE IF cc = CC_QUEUE_SELECT THEN U16(sel)
           ELSE IF cc = CC_QUEUE_SIZE THEN U16(Q("size"))
           ELSE IF cc = CC_QUEUE_ENABLE THEN U16(Q("enable"))
           ELSE IF cc = CC_QUEUE_NOTIFY_OFF THEN U16(Q("notify_off"))
           ELSE IF cc = CC_DEVICE_STATUS THEN U8(d.status)
           ELSE IF regs.isr_status # 0 /\ addr = regs.isr_status THEN U8(d.isr)
           ELSE IF regs.device_cfg # 0 /\ dc >= 0 /\ dc \in CfgBytes THEN CfgRead(d, dc, n)
           ELSE zero
      ELSE IF lg = VIRTIO_PCI_QUEUE_SELECT THEN U16(sel)
           ELSE IF lg = VIRTIO_PCI_QUEUE_SIZE THEN U16(Q("size"))
           ELSE IF lg = VIRTIO_PCI_DEVICE_STATUS THEN U8(d.status)
           ELSE IF lg = VIRTIO_PCI_ISR_STATUS THEN U8(d.isr)
           ELSE IF lg >= VIRTIO_PCI_CONFIG_OFFSET_NOMSIX
           THEN CfgRead(d, lg - VIRTIO_PCI_CONFIG_OFFSET_NOMSIX, n)
           ELSE zero

Rd(d, space, addr, n) ==
    LET v == DevRead(d, space, addr, n) IN
      [rw |-> "r", space |-> space, addr |-> addr, width |-> 8 * n,
       val |-> [k \in 1..n |-> IF k <= Len(v) THEN v[k] ELSE 0]]

\* the register file after a sequence of accesses
RECURSIVE Run(_, _)
Run(d, accs) ==
    IF accs = <<>> THEN d
    ELSE Run(IF Head(accs).rw = "w" THEN DevWrite(d, Head(accs)) ELSE d, Tail(accs))

(***************************************************************************)
(* Access helpers of the drivers.                                          *)
(***************************************************************************)
\* MmioWrite(volatile uint64_t*, uint64_t), mmiowrite<uint64_t>
MmioWrite64_HighFirst(addr, value) ==
    << Wr("mmio", addr + 4, CastU32(Shr32(value))),
       Wr("mmio", addr, CastU32(AndU32Max(value))) >>

MmioWrite64(addr, value) ==
    << Wr("mmio", addr, CastU32(AndU32Max(value))),
       Wr("mmio", addr + 4, CastU32(Shr32(value))) >>

\* MmioRead(volatile uint64_t*, uint64_t*): the two accesses; the value read
\* is Join64 of what they return
MmioRead64(d, addr) ==
    << Rd(d, "mmio", addr, 4), Rd(d, "mmio", addr + 4, 4) >>

\* PciLegacyBackend::DeviceConfigRead(uint16_t, uint64_t*)
LegacyRead64(d, offset) ==
    << Rd(d, "pio", Port(legacy_.device_cfg_offset_ + offset), 4),
       Rd(d, "pio", Port(legacy_.device_cfg_offset_ + offset + 4), 4) >>

\* Device::ReadConfigBar<T> / WriteConfigBar<T>: port I/O when
\* bar0_pio_base_ is set, else memory at bar_[0].mmio_base
ReadConfigBar(d, offset, n) ==
    IF bar0_pio_base_ # 0
    THEN Rd(d, "pio", Port(bar0_pio_base_ + offset), n)
    ELSE Rd(d, "mmio", bar_[0].mmio_base + offset, n)

WriteConfigBar(offset, bytes) ==
    IF bar0_pio_base_ # 0
    THEN Wr("pio", Port(bar0_pio_base_ + offset), bytes)
    ELSE Wr("mmio", bar_[0].mmio_base + offset, bytes)

(***************************************************************************)
(* A bound driver.  The register operations run on a transport that Bind   *)
(* has set up: the Modern backend or the Device with all four regions      *)
(* resolved, the Legacy backend on its I/O BAR, or the Device on BAR0      *)
(* (port-mapped, or memory-mapped when the BAR lies above 64K).            *)
(***************************************************************************)
\* bar0.pio_addr & 0xffff of the I/O BAR
LegacyPioBase == 49152

UnmappedBars == [b \in Bars |-> [mmio_base |-> 0, mmio_handle |-> ZX_HANDLE_INVALID]]

MappedBars(S) ==
    [b \in Bars |-> IF b \in S
                    THEN [mmio_base |-> MapResourceBase(b, 0),
                          mmio_handle |-> MapResourceHandle(b, 0)]
                    ELSE UnmappedBars[b]]

\* what discovery leaves for the lists <<1, n, 4, 5>> of CapKinds, n the
\* notify record (2 or 7)
RegsFor(n) ==
    LET At(k) == MapResourceBase(CapKinds[k].bar, 0) + CapKinds[k].offset IN
      [common_cfg |-> At(1), notify_base |-> At(n), isr_status |-> At(4),
       device_cfg |-> At(5), notify_off_mul |-> CapKinds[n].mul]

NoLegacy == [bar0_base_ |-> 0, device_cfg_offset_ |-> 0]

\* queue_notify_off of queue q is q + NotifyOffBase(n) on the device whose
\* notify capability is record n
NotifyOffBase(n) == IF n = 2 THEN 3 ELSE 0

Transports ==
    {[impl |-> m, gen |-> IF m = "modern" THEN "backend" ELSE "device",
      regs |-> RegsFor(n), bar_ |-> MappedBars({0, 1}), pio |-> 0, legacy_ |-> NoLegacy,
      noff |-> NotifyOffBase(n)]
        : m \in {"modern", "device"}, n \in {2, 7}}
    \cup
    {[impl |-> "legacy", gen |-> "backend", regs |-> InitRegs, bar_ |-> UnmappedBars,
      pio |-> 0,
      legacy_ |-> [bar0_base_ |-> LegacyPioBase,
                   device_cfg_offset_ |-> Port(LegacyPioBase + VIRTIO_PCI_CONFIG_OFFSET_NOMSIX)],
      noff |-> 0],
     [impl |-> "device", gen |-> "device", regs |-> InitRegs, bar_ |-> UnmappedBars,
      pio |-> LegacyPioBase, legacy_ |-> NoLegacy, noff |-> 0],
     [impl |-> "device", gen |-> "device", regs |-> InitRegs, bar_ |-> MappedBars({0}),
      pio |-> 0, legacy_ |-> NoLegacy, noff |-> 0]}

NoOp == [op |-> "none", args |-> <<>>, value |-> <<>>]

(***************************************************************************)
(* Before bring-up, interrupt servicing and concurrent callers start: no   *)
(* thread has been created, nobody holds the Backend lock.                 *)
(***************************************************************************)
Threads == 1..MaxThreads

\* a thread: where it is in IrqWorker, the irq_status local, and what the
\* current loop iteration has done so far
NoThread == [pc |-> "none", irq_status |-> 0, events |-> <<>>]

Callers == {1, 2}

\* a caller: the Backend operation it is in, the register accesses that
\* operation consists of and the ones it has made
IdleCaller == [op |-> "none", args |-> <<>>, plan |-> <<>>, done |-> <<>>]

\* no CopyDeviceConfig call is running
NoCopy == [pc |-> "idle", len |-> 0, i |-> 0, n |-> 0, buf |-> <<>>, st |-> "none"]

\* no thread is inside a Backend function, and Bind has not run
NoCalls == [stack |-> [t \in Callers |-> <<>>], bound |-> FALSE]

\* no PinnedMemoryObject::Create has been called: the range is unpinned and
\* the IOMMU holds no mapping of its pages
NoPmo ==
    [pc |-> "idle", pages |-> 0, contiguous |-> FALSE, pin_count |-> 0, pins |-> 0,
     unpins |-> 0, unpin_vmo |-> FALSE, page_array |-> FALSE, obj |-> "none",
     is_contiguous_ |-> FALSE, mapped_extents_ |-> <<>>, mapped_extents_len_ |-> 0,
     iommu |-> [k \in 1..MaxPages |-> [maps |-> 0, unmaps |-> 0]],
     st |-> "none", out |-> FALSE]

AuxIdle ==
    /\ phase = "none"
    /\ backend_ = "live"
    /\ thr = [t \in Threads |-> NoThread]
    /\ backend_lock_ = 0
    /\ callers = [c \in Callers |-> IdleCaller]
    /\ bus = <<>>
    /\ copy = NoCopy
    /\ frames = NoCalls
    /\ pmo = NoPmo

InitBound ==
    /\ \E t \in Transports, accepts \in BOOLEAN :
         /\ dev = DevInit(t.noff, accepts)
         /\ impl = t.impl
         /\ gen = t.gen
         /\ regs = t.regs
         /\ bar_ = t.bar_
         /\ bar0_pio_base_ = t.pio
         /\ legacy_ = t.legacy_
         /\ map_ok = [b \in Bars |-> IF t.bar_[b].mmio_handle # ZX_HANDLE_INVALID THEN 1 ELSE 0]
    /\ caps = <<>>
    /\ tail = 0
    /\ pc = "done"
    /\ off = 0
    /\ i = 0
    /\ irq_handle_ = 1
    /\ ret = ZX_OK
    /\ bus_calls = <<>>
    /\ mapbar = NoCall
    /\ cap_reads = 0
    /\ io = <<>>
    /\ last = NoOp
    /\ AuxIdle

(***************************************************************************)
(* Inputs of the register operations.                                      *)
(***************************************************************************)
CfgOffsets == 0..MaxCfgOff

\* 0, 2^64 - 1, 0x0000000100000002
U64Values == {Zero64, [k \in 1..8 |-> 255], <<2, 0, 0, 0, 1, 0, 0, 0>>}

RingIndices == {2, 3}
RingCounts == {256}

\* descriptor tables at 0x10000, at 0x100003000 and at 2^44
RingArgs ==
    {[pa_desc |-> <<0, 0, 1, 0, 0, 0, 0, 0>>, pa_avail |-> <<0, 16, 1, 0, 0, 0, 0, 0>>,
      pa_used |-> <<0, 32, 1, 0, 0, 0, 0, 0>>],
     [pa_desc |-> <<0, 48, 0, 0, 1, 0, 0, 0>>, pa_avail |-> <<0, 64, 0, 0, 1, 0, 0, 0>>,
      pa_used |-> <<0, 80, 0, 0, 2, 0, 0, 0>>],
     [pa_desc |-> <<0, 0, 0, 0, 0, 16, 0, 0>>, pa_avail |-> <<0, 16, 0, 0, 0, 16, 0, 0>>,
      pa_used |-> <<0, 32, 0, 0, 0, 16, 0, 0>>]}

(***************************************************************************)
(* 64-bit device-config access.                                            *)
(***************************************************************************)
\* PciModernBackend::DeviceConfigWrite(uint16_t offset, uint64_t value)
ModernDeviceConfigWrite64 ==
    /\ impl = "modern"
    /\ \E offset \in CfgOffsets, value \in U64Values :
         LET accs == MmioWrite64(regs.device_cfg + offset, value) IN
           /\ io' = accs
           /\ dev' = Run(dev, accs)
           /\ last' = [op |-> "DeviceConfigWrite64",
                       args |-> [offset |-> offset, value |-> value],
                       value |-> <<>>]
    /\ UNCHANGED <<discVars, auxVars, impl, legacy_>>

\* PciModernBackend::DeviceConfigRead(uint16_t offset, uint64_t* value)
ModernDeviceConfigRead64 ==
    /\ impl = "modern"
    /\ \E offset \in CfgOffsets :
         LET accs == MmioRead64(dev, regs.device_cfg + offset) IN
           /\ io' = accs
           /\ last' = [op |-> "DeviceConfigRead64",
                       args |-> [offset |-> offset],
                       value |-> Join64(accs[1].val, accs[2].val)]
    /\ UNCHANGED <<discVars, auxVars, impl, legacy_, dev>>

\* PciLegacyBackend::DeviceConfigRead(uint16_t offset, uint64_t* value)
LegacyDeviceConfigRead64 ==
    /\ impl = "legacy"
    /\ \E offset \in CfgOffsets :
         LET accs == LegacyRead64(dev, offset) IN
           /\ io' = accs
           /\ last' = [op |-> "DeviceConfigRead64",
                       args |-> [offset |-> offset],
                       value |-> Join64(accs[1].val, accs[2].val)]
    /\ UNCHANGED <<discVars, auxVars, impl, legacy_, dev>>

(***************************************************************************)
(* SetRing.                                                                *)
(***************************************************************************)
\* the accesses of PciModernBackend::SetRing
ModernSetRingIo_EnableFirst(index, count, pa_desc, pa_avail, pa_used) ==
    LET cc == regs.common_cfg IN
      << Wr("mmio", cc + CC_QUEUE_SELECT, U16(index)),
         Wr("mmio", cc + CC_QUEUE_ENABLE, U16(1)),
         Wr("mmio", cc + CC_QUEUE_SIZE, U16(count)) >>
      \o MmioWrite64(cc + CC_QUEUE_DESC, pa_desc)
      \o MmioWrite64(cc + CC_QUEUE_AVAIL, pa_avail)
      \o MmioWrite64(cc + CC_QUEUE_USED, pa_used)
      \o MmioWrite64(cc + CC_QUEUE_DESC, pa_desc)

ModernSetRingIo(index, count, pa_desc, pa_avail, pa_used) ==
    LET cc == regs.common_cfg IN
      << Wr("mmio", cc + CC_QUEUE_SELECT, U16(index)),
         Wr("mmio", cc + CC_QUEUE_SIZE, U16(count)) >>
      \o MmioWrite64(cc + CC_QUEUE_DESC, pa_desc)
      \o MmioWrite64(cc + CC_QUEUE_AVAIL, pa_avail)
      \o MmioWrite64(cc + CC_QUEUE_USED, pa_used)
      \o MmioWrite64(cc + CC_QUEUE_DESC, pa_desc)
      \o << Wr("mmio", cc + CC_QUEUE_ENABLE, U16(1)) >>

\* the accesses of PciLegacyBackend::SetRing
LegacySetRingIo_PfnFirst(index, count, pa_desc) ==
    LET base == legacy_.bar0_base_ IN
      << Wr("pio", Port(base + VIRTIO_PCI_QUEUE_PFN), CastU32(DivPage(pa_desc))),
         Wr("pio", Port(base + VIRTIO_PCI_QUEUE_SELECT), U16(index)),
         Wr("pio", Port(base + VIRTIO_PCI_QUEUE_SIZE), U16(count)) >>

LegacySetRingIo(index, count, pa_desc) ==
    LET base == legacy_.bar0_base_ IN
      << Wr("pio", Port(base + VIRTIO_PCI_QUEUE_SELECT), U16(index)),
         Wr("pio", Port(base + VIRTIO_PCI_QUEUE_SIZE), U16(count)),
         Wr("pio", Port(base + VIRTIO_PCI_QUEUE_PFN), CastU32(DivPage(pa_desc))) >>

\* the accesses of Device::SetRing, by the transport the Device is on
DeviceSetRingIo(index, count, pa_desc, pa_avail, pa_used) ==
    IF regs.common_cfg = 0
    THEN IF bar0_pio_base_ # 0
         THEN << Wr("pio", Port(bar0_pio_base_ + VIRTIO_PCI_QUEUE_SELECT), U16(index)),
                 Wr("pio", Port(bar0_pio_base_ + VIRTIO_PCI_QUEUE_SIZE), U16(count)),
                 Wr("pio", Port(bar0_pio_base_ + VIRTIO_PCI_QUEUE_PFN),
                    CastU32(DivPage(pa_desc))) >>
         ELSE IF bar_[0].mmio_base # 0
         THEN << Wr("mmio", bar_[0].mmio_base + VIRTIO_PCI_QUEUE_SELECT, U16(index)),
                 Wr("mmio", bar_[0].mmio_base + VIRTIO_PCI_QUEUE_SIZE, U16(count)),
                 Wr("mmio", bar_[0].mmio_base + VIRTIO_PCI_QUEUE_PFN,
                    CastU32(DivPage(pa_desc))) >>
         ELSE <<>>
    ELSE LET cc == regs.common_cfg IN
           << Wr("mmio", cc + CC_QUEUE_SELECT, U16(index)),
              Wr("mmio", cc + CC_QUEUE_SIZE, U16(count)) >>
           \o MmioWrite64(cc + CC_QUEUE_DESC, pa_desc)
           \o MmioWrite64(cc + CC_QUEUE_AVAIL, pa_avail)
           \o MmioWrite64(cc + CC_QUEUE_USED, pa_used)
           \o << Wr("mmio", cc + CC_QUEUE_ENABLE, U16(1)) >>

SetRingDone(index, count, a, accs) ==
    /\ io' = accs
    /\ dev' = Run(dev, accs)
    /\ last' = [op |-> "SetRing",
                args |-> [index |-> index, count |-> count, pa_desc |-> a.pa_desc,
                          pa_avail |-> a.pa_avail, pa_used |-> a.pa_used],
                value |-> <<>>]

ModernSetRing ==
    /\ impl = "modern"
    /\ \E index \in RingIndices, count \in RingCounts, a \in RingArgs :
         SetRingDone(index, count, a,
                     ModernSetRingIo(index, count, a.pa_desc, a.pa_avail, a.pa_used))
    /\ UNCHANGED <<discVars, auxVars, impl, legacy_>>

LegacySetRing ==
    /\ impl = "legacy"
    /\ \E index \in RingIndices, count \in RingCounts, a \in RingArgs :
         SetRingDone(index, count, a, LegacySetRingIo(index, count, a.pa_desc))
    /\ UNCHANGED <<discVars, auxVars, impl, legacy_>>

DeviceSetRing ==
    /\ impl = "device"
    /\ \E index \in RingIndices, count \in RingCounts, a \in RingArgs :
         SetRingDone(index, count, a,
                     DeviceSetRingIo(index, count, a.pa_desc, a.pa_avail, a.pa_used))
    /\ UNCHANGED <<discVars, auxVars, impl, legacy_>>

(***************************************************************************)
(* RingKick.                                                               *)
(***************************************************************************)
\* the accesses of PciModernBackend::RingKick; the driver does not select
\* a queue, queue_notify_off is that of the queue selected last
ModernRingKickIo_NoMultiplier(d, ring_index) ==
    LET rd == Rd(d, "mmio", regs.common_cfg + CC_QUEUE_NOTIFY_OFF, 2)
        queue_notify_off == N16(rd.val)
        addr == regs.notify_base + queue_notify_off
    IN << rd, Wr("mmio", addr, U16(ring_index)) >>

ModernRingKickIo(d, ring_index) ==
    LET rd == Rd(d, "mmio", regs.common_cfg + CC_QUEUE_NOTIFY_OFF, 2)
        queue_notify_off == N16(rd.val)
        addr == regs.notify_base + queue_notify_off * regs.notify_off_mul
    IN << rd, Wr("mmio", addr, U16(ring_index)) >>

\* PciLegacyBackend::RingKick
LegacyRingKickIo(ring_index) ==
    << Wr("pio", Port(legacy_.bar0_base_ + VIRTIO_PCI_QUEUE_NOTIFY), U16(ring_index)) >>

\* Device::RingKick: notify_base is a uint16_t*, the index is scaled by
\* notify_mul / sizeof(uint16_t) elements; without a notify region and
\* without port I/O the body is assert(0)
DeviceRingKickIo(ring_index) ==
    IF regs.notify_base = 0
    THEN IF bar0_pio_base_ # 0
         THEN << Wr("pio", Port(bar0_pio_base_ + VIRTIO_PCI_QUEUE_NOTIFY), U16(ring_index)) >>
         ELSE <<>>
    ELSE << Wr("mmio",
               regs.notify_base + 2 * ((ring_index * regs.notify_off_mul) \div 2),
               U16(ring_index)) >>

RingKickDone(ring_index, accs) ==
    /\ io' = accs
    /\ dev' = Run(dev, accs)
    /\ last' = [op |-> "RingKick", args |-> [ring_index |-> ring_index], value |-> <<>>]

ModernRingKick ==
    /\ impl = "modern"
    /\ \E ring_index \in RingIndices : RingKickDone(ring_index, ModernRingKickIo(dev, ring_index))
    /\ UNCHANGED <<discVars, auxVars, impl, legacy_>>

LegacyRingKick ==
    /\ impl = "legacy"
    /\ \E ring_index \in RingIndices : RingKickDone(ring_index, LegacyRingKickIo(ring_index))
    /\ UNCHANGED <<discVars, auxVars, impl, legacy_>>

DeviceRingKick ==
    /\ impl = "device"
    /\ \E ring_index \in RingIndices : RingKickDone(ring_index, DeviceRingKickIo(ring_index))
    /\ UNCHANGED <<discVars, auxVars, impl, legacy_>>

\* PciModernBackend::GetRingSize / PciLegacyBackend::GetRingSize
ModernGetRingSizeIo(d, index) ==
    LET w == Wr("mmio", regs.common_cfg + CC_QUEUE_SELECT, U16(index)) IN
      << w, Rd(DevWrite(d, w), "mmio", regs.common_cfg + CC_QUEUE_SIZE, 2) >>

LegacyGetRingSizeIo(d, index) ==
    << Rd(d, "pio", Port(legacy_.bar0_base_ + VIRTIO_PCI_QUEUE_SIZE), 2) >>

\* what GetRingSize returns: the two bytes of its queue-size read
GetRingSizeDone(index, accs) ==
    /\ io' = accs
    /\ dev' = Run(dev, accs)
    /\ last' = [op |-> "GetRingSize", args |-> [index |-> index],
                value |-> accs[Len(accs)].val]

ModernGetRingSize ==
    /\ impl = "modern"
    /\ \E index \in RingIndices : GetRingSizeDone(index, ModernGetRingSizeIo(dev, index))
    /\ UNCHANGED <<discVars, auxVars, impl, legacy_>>

LegacyGetRingSize ==
    /\ impl = "legacy"
    /\ \E index \in RingIndices : GetRingSizeDone(index, LegacyGetRingSizeIo(dev, index))
    /\ UNCHANGED <<discVars, auxVars, impl, legacy_>>

NextRing ==
    \/ ModernGetRingSize
    \/ LegacyGetRingSize
    \/ ModernDeviceConfigWrite64
    \/ ModernDeviceConfigRead64
    \/ LegacyDeviceConfigRead64
    \/ ModernSetRing
    \/ LegacySetRing
    \/ DeviceSetRing
    \/ ModernRingKick
    \/ LegacyRingKick
    \/ DeviceRingKick

\* the ring and device-config operations of a bound driver, in any order
InitRing == InitBound /\ dev.accepts

SpecRing == InitRing /\ [][NextRing]_vars

(***************************************************************************)
(* Device status.                                                          *)
(***************************************************************************)
\* the status byte as the Device reaches it: through ReadConfigBar /
\* WriteConfigBar without a common-config block, else through
\* common_config->device_status
DeviceStatusRd(d) ==
    IF regs.common_cfg = 0
    THEN ReadConfigBar(d, VIRTIO_PCI_DEVICE_STATUS, 1)
    ELSE Rd(d, "mmio", regs.common_cfg + CC_DEVICE_STATUS, 1)

DeviceStatusWr(v) ==
    IF regs.common_cfg = 0
    THEN WriteConfigBar(VIRTIO_PCI_DEVICE_STATUS, U8(v))
    ELSE Wr("mmio", regs.common_cfg + CC_DEVICE_STATUS, U8(v))

\* the status byte as a backend reaches it
BackendStatusRd(d) ==
    IF impl = "legacy"
    THEN Rd(d, "pio", Port(legacy_.bar0_base_ + VIRTIO_PCI_DEVICE_STATUS), 1)
    ELSE Rd(d, "mmio", regs.common_cfg + CC_DEVICE_STATUS, 1)

BackendStatusWr(v) ==
    IF impl = "legacy"
    THEN Wr("pio", Port(legacy_.bar0_base_ + VIRTIO_PCI_DEVICE_STATUS), U8(v))
    ELSE Wr("mmio", regs.common_cfg + CC_DEVICE_STATUS, U8(v))

\* val = bits; write val
DeviceStatusOr_Overwrite(d, bits) ==
    LET r1 == DeviceStatusRd(d) IN << r1, DeviceStatusWr(bits) >>

\* val |= bits; write val  (Device::StatusAcknowledgeDriver, StatusDriverOK)
DeviceStatusOr(d, bits) ==
    LET r1 == DeviceStatusRd(d) IN << r1, DeviceStatusWr(BitOr(N8(r1.val), bits)) >>

\* Device::StatusFeaturesOK: the accesses and the status returned
DeviceStatusFeaturesOK_NoReread(d) ==
    LET acc == DeviceStatusOr(d, VIRTIO_STATUS_FEATURES_OK)
        val == N8(acc[2].val)
    IN [io |-> acc \o << DeviceStatusRd(Run(d, acc)) >>,
        ret |-> IF BitAnd(val, VIRTIO_STATUS_FEATURES_OK) = 0
                THEN ZX_ERR_NOT_SUPPORTED ELSE ZX_OK]

DeviceStatusFeaturesOK(d) ==
    LET acc == DeviceStatusOr(d, VIRTIO_STATUS_FEATURES_OK)
        r2 == DeviceStatusRd(Run(d, acc))
        val == N8(r2.val)
    IN [io |-> acc \o << r2 >>,
        ret |-> IF BitAnd(val, VIRTIO_STATUS_FEATURES_OK) = 0
                THEN ZX_ERR_NOT_SUPPORTED ELSE ZX_OK]

StatusDone(name, accs, result) ==
    /\ io' = accs
    /\ dev' = Run(dev, accs)
    /\ last' = [op |-> name, args |-> <<>>, value |-> result]

\* Device::Reset: write 0, then read until the byte reads 0
Reset ==
    /\ impl = "device"
    /\ LET w == DeviceStatusWr(0) IN
         StatusDone("Reset", << w, DeviceStatusRd(DevWrite(dev, w)) >>, <<>>)
    /\ UNCHANGED <<discVars, auxVars, impl, legacy_>>

StatusAcknowledgeDriver ==
    /\ impl = "device"
    /\ StatusDone("StatusAcknowledgeDriver",
                  DeviceStatusOr(dev, BitOr(VIRTIO_STATUS_ACKNOWLEDGE, VIRTIO_STATUS_DRIVER)),
                  <<>>)
    /\ UNCHANGED <<discVars, auxVars, impl, legacy_>>

StatusFeaturesOK ==
    /\ impl = "device"
    /\ LET r == DeviceStatusFeaturesOK(dev) IN StatusDone("StatusFeaturesOK", r.io, r.ret)
    /\ UNCHANGED <<discVars, auxVars, impl, legacy_>>

StatusDriverOK ==
    /\ impl = "device"
    /\ StatusDone("StatusDriverOK", DeviceStatusOr(dev, VIRTIO_STATUS_DRIVER_OK), <<>>)
    /\ UNCHANGED <<discVars, auxVars, impl, legacy_>>

\* PciModernBackend / PciLegacyBackend ::DeviceReset
DeviceReset ==
    /\ impl \in {"modern", "legacy"}
    /\ StatusDone("DeviceReset", << BackendStatusWr(0) >>, <<>>)
    /\ UNCHANGED <<discVars, auxVars, impl, legacy_>>

\* DriverStatusAck: the Legacy backend ors in ACKNOWLEDGE | DRIVER, the
\* Modern backend ACKNOWLEDGE
DriverStatusAck ==
    /\ impl \in {"modern", "legacy"}
    /\ LET r1 == BackendStatusRd(dev)
           bits == IF impl = "legacy"
                   THEN BitOr(VIRTIO_STATUS_ACKNOWLEDGE, VIRTIO_STATUS_DRIVER)
                   ELSE VIRTIO_STATUS_ACKNOWLEDGE
       IN StatusDone("DriverStatusAck",
                     << r1, BackendStatusWr(BitOr(N8(r1.val), bits)) >>, <<>>)
    /\ UNCHANGED <<discVars, auxVars, impl, legacy_>>

DriverStatusOk ==
    /\ impl \in {"modern", "legacy"}
    /\ LET r1 == BackendStatusRd(dev) IN
         StatusDone("DriverStatusOk",
                    << r1, BackendStatusWr(BitOr(N8(r1.val), VIRTIO_STATUS_DRIVER_OK)) >>,
                    <<>>)
    /\ UNCHANGED <<discVars, auxVars, impl, legacy_>>

NextStatus ==
    \/ Reset
    \/ StatusAcknowledgeDriver
    \/ StatusFeaturesOK
    \/ StatusDriverOK
    \/ DeviceReset
    \/ DriverStatusAck
    \/ DriverStatusOk

\* the status operations of a bound driver, in any order, against a device
\* that accepts or rejects the features
SpecStatus == InitBound /\ [][NextStatus]_vars

Init ==
    /\ gen \in {"backend", "device"}
    /\ caps \in CapLists
    /\ tail \in (IF Len(caps) = 0 THEN {0} ELSE {0, 1})
    /\ pc = "idle"
    /\ off = 0
    /\ i = 0
    /\ bar_ = [b \in Bars |-> [mmio_base |-> 0, mmio_handle |-> ZX_HANDLE_INVALID]]
    /\ regs = InitRegs
    /\ bar0_pio_base_ = 0
    /\ irq_handle_ = ZX_HANDLE_INVALID
    /\ ret = "none"
    /\ bus_calls = <<>>
    /\ map_ok = [b \in Bars |-> 0]
    /\ mapbar = NoCall
    /\ cap_reads = 0
    /\ impl = (IF gen = "backend" THEN "modern" ELSE "device")
    /\ legacy_ = NoLegacy
    /\ dev = DevInit(0, TRUE)
    /\ io = <<>>
    /\ last = NoOp
    /\ AuxIdle

Next ==
    \/ Bind
    \/ InitStep
    \/ InitCheck
    \/ DeviceBind
    \/ DeviceBindStep
    \/ DeviceBindPost

Spec == Init /\ [][Next]_vars

\* The loops of Bind/Init are single-threaded code that keeps running.
FairSpec == Spec /\ WF_vars(Next)

(***************************************************************************)
(* C1: BAR mapping is idempotent for every BAR index 0..5.  The bus        *)
(* primitive succeeds at most once per index; a BAR with a stored handle   *)
(* keeps the base of that one mapping; and a MapBar call on a BAR that has *)
(* been mapped returns ZX_OK (a call that invoked the primitive and failed *)
(* can only be on a BAR never mapped before).                              *)
(***************************************************************************)
C1_MapBarIdempotent ==
    \A b \in Bars :
      /\ map_ok[b] <= 1
      /\ bar_[b].mmio_handle # ZX_HANDLE_INVALID =>
           /\ map_ok[b] = 1
           /\ bar_[b].mmio_base = MapResourceBase(b, 0)
      /\ (mapbar.bar = b /\ map_ok[b] >= 1) => mapbar.st = ZX_OK
      /\ (mapbar.bar = b /\ mapbar.prim /\ mapbar.st # ZX_OK) => map_ok[b] = 0

\* a second MapBar of an already mapped BAR: answered without the primitive
C1_Witness ==
    /\ gen = "backend"
    /\ mapbar.bar = 1
    /\ ~mapbar.prim
    /\ mapbar.st = ZX_OK
    /\ map_ok[1] = 1

(***************************************************************************)
(* C2: capability discovery terminates for every capability list, also a   *)
(* cyclic one: the walk of Bind/Init eventually leaves its loop.           *)
(***************************************************************************)
C2_WalkTerminates == <>(pc \in {"post", "done"})

(***************************************************************************)
(* C3: a walk that reaches its iteration bound without having seen         *)
(* next_offset == 0 is a reported failure: Bind does not return ZX_OK.     *)
(***************************************************************************)
C3_BoundHitIsError ==
    (pc = "done" /\ i >= kMaxCapIter) => ret # ZX_OK

(***************************************************************************)
(* C4: PciModernBackend::Init, having walked the whole list, returns ZX_OK *)
(* exactly when common_config, isr_status, device_config and notify_base   *)
(* are all resolved, and ZX_ERR_BAD_STATE otherwise; PciBackend::Bind      *)
(* returns that status.                                                    *)
(***************************************************************************)
C4_InitOkIffAllResolved ==
    (gen = "backend" /\ pc = "done" /\ irq_handle_ # ZX_HANDLE_INVALID) =>
      LET all == /\ regs.common_cfg # 0 /\ regs.isr_status # 0
                 /\ regs.device_cfg # 0 /\ regs.notify_base # 0
      IN /\ off = 0
         /\ ret = ZX_OK <=> all
         /\ ~all => ret = ZX_ERR_BAD_STATE

\* Init has failed with only the notify slot missing
C4_Witness ==
    /\ gen = "backend"
    /\ pc = "done"
    /\ ret = ZX_ERR_BAD_STATE
    /\ regs.common_cfg # 0
    /\ regs.isr_status # 0
    /\ regs.device_cfg # 0
    /\ regs.notify_base = 0

(***************************************************************************)
(* C5: every 64-bit register access is exactly two 32-bit accesses, the    *)
(* low word (lower address) first, the high word (address + 4) second: no  *)
(* access is wider than 32 bits; the Modern 64-bit device-config write and *)
(* read and the Legacy 64-bit device-config read are such a pair at the    *)
(* offset asked for; and in SetRing on a common-config block each of       *)
(* queue_desc, queue_avail and queue_used is written, every write of its   *)
(* low word is followed at once by the write of its high word, and no high *)
(* word is written otherwise.                                              *)
(***************************************************************************)
C5_SplitLowFirst ==
    LET Pair(k, rw, space, addr) ==
            /\ k + 1 \in DOMAIN io
            /\ io[k].rw = rw /\ io[k + 1].rw = rw
            /\ io[k].space = space /\ io[k + 1].space = space
            /\ io[k].width = 32 /\ io[k + 1].width = 32
            /\ io[k].addr = addr /\ io[k + 1].addr = addr + 4
        Halves(k, v) ==
            /\ io[k].val = SubSeq(v, 1, 4)
            /\ io[k + 1].val = SubSeq(v, 5, 8)
        Reg64(addr, v) ==
            /\ \E k \in DOMAIN io : io[k].addr = addr
            /\ \A k \in DOMAIN io :
                 /\ io[k].addr = addr => Pair(k, "w", "mmio", addr) /\ Halves(k, v)
                 /\ io[k].addr = addr + 4 => k - 1 \in DOMAIN io /\ io[k - 1].addr = addr
    IN
      /\ \A k \in DOMAIN io : io[k].width <= 32
      /\ last.op = "DeviceConfigWrite64" =>
           /\ Len(io) = 2
           /\ Pair(1, "w", "mmio", regs.device_cfg + last.args.offset)
           /\ Halves(1, last.args.value)
      /\ (last.op = "DeviceConfigRead64" /\ impl = "modern") =>
           /\ Len(io) = 2
           /\ Pair(1, "r", "mmio", regs.device_cfg + last.args.offset)
           /\ Halves(1, last.value)
      /\ (last.op = "DeviceConfigRead64" /\ impl = "legacy") =>
           /\ Len(io) = 2
           /\ Pair(1, "r", "pio", legacy_.device_cfg_offset_ + last.args.offset)
           /\ Halves(1, last.value)
      /\ (last.op = "SetRing" /\ regs.common_cfg # 0) =>
           /\ Reg64(regs.common_cfg + CC_QUEUE_DESC, last.args.pa_desc)
           /\ Reg64(regs.common_cfg + CC_QUEUE_AVAIL, last.args.pa_avail)
           /\ Reg64(regs.common_cfg + CC_QUEUE_USED, last.args.pa_used)

\* Modern SetRing with a descriptor table above 4G: eleven 32/16-bit writes
C5_Witness ==
    /\ impl = "modern"
    /\ last.op = "SetRing"
    /\ last.args.pa_desc = <<0, 48, 0, 0, 1, 0, 0, 0>>
    /\ Len(io) = 11
    /\ io[3].val = <<0, 48, 0, 0>>
    /\ io[4].val = <<1, 0, 0, 0>>

(***************************************************************************)
(* C6: 64-bit round trip on the Modern backend: a 64-bit device-config     *)
(* read that follows a 64-bit device-config write of v at the same offset  *)
(* returns v, for every offset and for v = 0, all-ones and                 *)
(* 0x0000000100000002.                                                     *)
(***************************************************************************)
C6_RoundTrip ==
    [][(/\ last.op = "DeviceConfigWrite64"
        /\ last'.op = "DeviceConfigRead64"
        /\ last'.args.offset = last.args.offset)
       => last'.value = last.args.value]_vars

\* 0x0000000100000002 has been written at the odd offset and read back
C6_Witness ==
    /\ impl = "modern"
    /\ last.op = "DeviceConfigRead64"
    /\ last.args.offset = 1
    /\ last.value = <<2, 0, 0, 0, 1, 0, 0, 0>>
    /\ io[1].val = <<2, 0, 0, 0>>
    /\ io[2].val = <<1, 0, 0, 0>>

(***************************************************************************)
(* C7 (as amended): SetRing on the legacy register block (the Legacy       *)
(* backend, the Device without a common-config block) performs exactly     *)
(* three register writes, in this order: index to queue-select, count to   *)
(* queue-size, and the low 32 bits of pa_desc / 4096 to the 32-bit PFN     *)
(* register (bits 12..27 and 28..43 of pa_desc); nothing is written for    *)
(* pa_avail and pa_used.                                                   *)
(***************************************************************************)
C7_LegacySetRingWrites ==
    (last.op = "SetRing" /\ regs.common_cfg = 0) =>
      LET space == IF impl = "legacy" \/ bar0_pio_base_ # 0 THEN "pio" ELSE "mmio"
          base == IF impl = "legacy" THEN legacy_.bar0_base_
                  ELSE IF bar0_pio_base_ # 0 THEN bar0_pio_base_
                  ELSE bar_[0].mmio_base
          pa == last.args.pa_desc
          bits8to31 == pa[2] + 256 * pa[3] + 65536 * pa[4]
          bits24to47 == pa[4] + 256 * pa[5] + 65536 * pa[6]
      IN
        /\ Len(io) = 3
        /\ \A k \in 1..3 : io[k].rw = "w" /\ io[k].space = space
        /\ io[1].addr = base + VIRTIO_PCI_QUEUE_SELECT
        /\ io[1].width = 16
        /\ N16(io[1].val) = last.args.index
        /\ io[2].addr = base + VIRTIO_PCI_QUEUE_SIZE
        /\ io[2].width = 16
        /\ N16(io[2].val) = last.args.count
        /\ io[3].addr = base + VIRTIO_PCI_QUEUE_PFN
        /\ io[3].width = 32
        /\ N16(SubSeq(io[3].val, 1, 2)) = (bits8to31 \div 16) % 65536
        /\ N16(SubSeq(io[3].val, 3, 4)) = (bits24to47 \div 16) % 65536

\* SetRing(index=3, count=256, pa_desc=0x10000) on the Legacy backend: the
\* PFN register receives 0x10
C7_Witness ==
    /\ impl = "legacy"
    /\ last.op = "SetRing"
    /\ last.args.index = 3
    /\ last.args.count = 256
    /\ last.args.pa_desc = <<0, 0, 1, 0, 0, 0, 0, 0>>
    /\ io[1].val = <<3, 0>>
    /\ io[2].val = <<0, 1>>
    /\ io[3].val = <<16, 0, 0, 0>>

\* C7 as claimed: the value written to the PFN register is pa_desc / 4096
C7_PfnIsQuotient ==
    (last.op = "SetRing" /\ regs.common_cfg = 0) =>
      /\ Len(io) = 3
      /\ io[3].val \o <<0, 0, 0, 0>> = DivPage(last.args.pa_desc)

C9_ModernRingKick ==
    (last.op = "RingKick" /\ impl = "modern") =>
      /\ Len(io) = 2
      /\ Cardinality({k \in DOMAIN io : io[k].rw = "w"}) = 1
      /\ io[1].rw = "r"
      /\ io[1].space = "mmio"
      /\ io[1].addr = regs.common_cfg + CC_QUEUE_NOTIFY_OFF
      /\ io[1].width = 16
      /\ dev.queue_select \in QueueIds
      /\ N16(io[1].val) = dev.queues[dev.queue_select].notify_off
      /\ io[2].rw = "w"
      /\ io[2].space = "mmio"
      /\ io[2].width = 16
      /\ N16(io[2].val) = last.args.ring_index
      /\ io[2].addr = regs.notify_base + N16(io[1].val) * regs.notify_off_mul

\* queue_notify_off 5, multiplier 4, ring 2: 2 is written at notify_base + 20
C9_Witness ==
    /\ impl = "modern"
    /\ last.op = "RingKick"
    /\ last.args.ring_index = 2
    /\ io[1].val = <<5, 0>>
    /\ regs.notify_off_mul = 4
    /\ io[2].val = <<2, 0>>
    /\ io[2].addr = regs.notify_base + 20

(***************************************************************************)
(* C10: Device::StatusFeaturesOK reads the status byte, writes it back     *)
(* with FEATURES_OK set, reads it again, and returns ZX_ERR_NOT_SUPPORTED  *)
(* exactly when FEATURES_OK is clear in the value read again, ZX_OK        *)
(* otherwise; on the port-I/O path and on both memory-mapped paths.        *)
(***************************************************************************)
C10_FeaturesOkReread ==
    last.op = "StatusFeaturesOK" =>
      LET space == IF regs.common_cfg = 0 /\ bar0_pio_base_ # 0 THEN "pio" ELSE "mmio"
          addr == IF regs.common_cfg # 0 THEN regs.common_cfg + CC_DEVICE_STATUS
                  ELSE IF bar0_pio_base_ # 0 THEN bar0_pio_base_ + VIRTIO_PCI_DEVICE_STATUS
                  ELSE bar_[0].mmio_base + VIRTIO_PCI_DEVICE_STATUS
      IN
        /\ Len(io) = 3
        /\ \A k \in 1..3 : io[k].space = space /\ io[k].addr = addr /\ io[k].width = 8
        /\ io[1].rw = "r"
        /\ io[2].rw = "w"
        /\ io[3].rw = "r"
        /\ HasBit(io[2].val[1], VIRTIO_STATUS_FEATURES_OK)
        /\ \A b \in StatusBitValues \ {VIRTIO_STATUS_FEATURES_OK} :
             HasBit(io[2].val[1], b) <=> HasBit(io[1].val[1], b)
        /\ io[3].val[1] = dev.status
        /\ last.value = ZX_ERR_NOT_SUPPORTED
             <=> ~HasBit(io[3].val[1], VIRTIO_STATUS_FEATURES_OK)
        /\ last.value \in {ZX_OK, ZX_ERR_NOT_SUPPORTED}

\* a device on the port-I/O path has rejected the features
C10_Witness ==
    /\ impl = "device"
    /\ bar0_pio_base_ # 0
    /\ last.op = "StatusFeaturesOK"
    /\ last.value = ZX_ERR_NOT_SUPPORTED
    /\ HasBit(io[2].val[1], VIRTIO_STATUS_FEATURES_OK)
    /\ ~HasBit(dev.status, VIRTIO_STATUS_FEATURES_OK)
    /\ HasBit(dev.status, VIRTIO_STATUS_ACKNOWLEDGE)

(***************************************************************************)
(* C20: Bind asks for the message-signaled interrupt mode first and for    *)
(* the line-based mode only right after the message-signaled request has   *)
(* failed; when both requests fail Bind returns an error, the interrupt    *)
(* resource is not mapped and Init (the capability walk) has not run.      *)
(***************************************************************************)
C20_IrqModeFallback ==
    LET Is(k, name) == bus_calls[k].call = name IN
      /\ \A k \in DOMAIN bus_calls :
           /\ Is(k, "set_irq_mode_legacy") =>
                /\ k - 1 \in DOMAIN bus_calls
                /\ Is(k - 1, "set_irq_mode_msi")
                /\ ~bus_calls[k - 1].ok
           /\ (Is(k, "set_irq_mode_msi") /\ ~bus_calls[k].ok) =>
                /\ k + 1 \in DOMAIN bus_calls
                /\ Is(k + 1, "set_irq_mode_legacy")
           /\ (Is(k, "set_irq_mode_msi") /\ bus_calls[k].ok) =>
                \A j \in DOMAIN bus_calls : ~Is(j, "set_irq_mode_legacy")
           /\ Is(k, "map_interrupt") =>
                \E j \in 1..(k - 1) : Is(j, "set_irq_mode_msi")
      /\ (\E k \in DOMAIN bus_calls : Is(k, "set_irq_mode_legacy") /\ ~bus_calls[k].ok) =>
           /\ pc = "done"
           /\ ret \notin {ZX_OK, "none"}
           /\ \A j \in DOMAIN bus_calls : ~Is(j, "map_interrupt")
           /\ irq_handle_ = ZX_HANDLE_INVALID
           /\ cap_reads = 0
           /\ regs = InitRegs
           /\ \A b \in Bars : map_ok[b] = 0 /\ bar_[b].mmio_handle = ZX_HANDLE_INVALID

\* Bind has returned after both interrupt-mode requests failed
C20_Witness ==
    /\ pc = "done"
    /\ Len(bus_calls) = 3
    /\ bus_calls[2] = Call("set_irq_mode_msi", FALSE)
    /\ bus_calls[3] = Call("set_irq_mode_legacy", FALSE)
    /\ ret = ZX_ERR_INTERNAL
    /\ Len(caps) > 0

(***************************************************************************)
(* C18: RESET to ACKNOWLEDGE+DRIVER.  DriverStatusAck (on the Device:      *)
(* StatusAcknowledgeDriver) on a device whose status reads 0, as           *)
(* DeviceReset leaves it, leaves both the ACKNOWLEDGE and the DRIVER bit   *)
(* set in the device status register, on every transport.                  *)
(***************************************************************************)
C18_AckSetsBoth ==
    (/\ last.op \in {"DriverStatusAck", "StatusAcknowledgeDriver"}
     /\ io[1].val[1] = 0)
    => /\ HasBit(dev.status, VIRTIO_STATUS_ACKNOWLEDGE)
       /\ HasBit(dev.status, VIRTIO_STATUS_DRIVER)

(***************************************************************************)
(* C19: no backward transitions.  DriverStatusAck, DriverStatusOk,         *)
(* StatusAcknowledgeDriver, StatusFeaturesOK and StatusDriverOK read the   *)
(* status byte and write it back with bits added: every bit of the value   *)
(* read is in the value written, and no bit of the register is cleared by  *)
(* the operation.  Only DeviceReset / Reset clears bits, by writing 0.     *)
(***************************************************************************)
C19_NoBackwardTransition ==
    [][IF last'.op \in {"DeviceReset", "Reset"}
       THEN /\ io'[1].rw = "w"
            /\ io'[1].val[1] = 0
            /\ \A k \in DOMAIN io' : io'[k].rw = "w" => k = 1
            /\ dev'.status = 0
       ELSE /\ Len(io') >= 2
            /\ io'[1].rw = "r"
            /\ io'[1].val[1] = dev.status
            /\ io'[2].rw = "w"
            /\ io'[2].addr = io'[1].addr
            /\ \A k \in DOMAIN io' : io'[k].rw = "w" => k = 2
            /\ \A b \in StatusBitValues :
                 /\ HasBit(io'[1].val[1], b) => HasBit(io'[2].val[1], b)
                 /\ HasBit(dev.status, b) => HasBit(dev'.status, b)
      ]_vars

\* DRIVER_OK has been added on top of ACKNOWLEDGE | DRIVER on the Legacy
\* backend
C19_Witness ==
    /\ impl = "legacy"
    /\ last.op = "DriverStatusOk"
    /\ io[1].val = <<3>>
    /\ io[2].val = <<7>>
    /\ dev.status = 7


(***************************************************************************)
(* Bring-up of one device by its driver.  The drivers that call the status *)
(* operations are not part of this core; the order they follow is the one  *)
(* the transport specification imposes: Reset, ACKNOWLEDGE+DRIVER, feature *)
(* negotiation, FEATURES_OK with the re-read, ring setup, DRIVER_OK.  A     *)
(* rejected FEATURES_OK aborts bring-up; only Reset restarts it.  Writing   *)
(* the feature bits is device-specific and touches no register modelled    *)
(* here.                                                                   *)
(***************************************************************************)
BringUp(name, accs, result, to) ==
    /\ StatusDone(name, accs, result)
    /\ phase' = to
    /\ UNCHANGED <<discVars, irqVars, lockVars, copyVars, extVars, impl, legacy_>>

\* what the driver does with the result of StatusFeaturesOK
AfterFeatures_Continue(result) ==
    "features_ok"

AfterFeatures(result) ==
    IF result = ZX_OK THEN "features_ok" ELSE "aborted"

DriverReset ==
    /\ impl = "device"
    /\ LET w == DeviceStatusWr(0) IN
         BringUp("Reset", << w, DeviceStatusRd(DevWrite(dev, w)) >>, <<>>, "reset")

DriverAcknowledge ==
    /\ phase = "reset"
    /\ BringUp("StatusAcknowledgeDriver",
               DeviceStatusOr(dev, BitOr(VIRTIO_STATUS_ACKNOWLEDGE, VIRTIO_STATUS_DRIVER)),
               <<>>, "acknowledged")

DriverFeatures ==
    /\ phase = "acknowledged"
    /\ LET r == DeviceStatusFeaturesOK(dev) IN
         BringUp("StatusFeaturesOK", r.io, r.ret, AfterFeatures(r.ret))

DriverSetRing ==
    /\ phase = "features_ok"
    /\ \E index \in RingIndices, count \in RingCounts, a \in RingArgs :
         SetRingDone(index, count, a,
                     DeviceSetRingIo(index, count, a.pa_desc, a.pa_avail, a.pa_used))
    /\ UNCHANGED <<discVars, auxVars, impl, legacy_>>

DriverOK ==
    /\ phase = "features_ok"
    /\ BringUp("StatusDriverOK", DeviceStatusOr(dev, VIRTIO_STATUS_DRIVER_OK), <<>>, "running")

DriverRingKick ==
    /\ phase = "running"
    /\ \E ring_index \in RingIndices : RingKickDone(ring_index, DeviceRingKickIo(ring_index))
    /\ UNCHANGED <<discVars, auxVars, impl, legacy_>>

NextBringUp ==
    \/ DriverReset
    \/ DriverAcknowledge
    \/ DriverFeatures
    \/ DriverSetRing
    \/ DriverOK
    \/ DriverRingKick

InitBringUp == InitBound /\ impl = "device"

SpecBringUp == InitBringUp /\ [][NextBringUp]_vars

(***************************************************************************)
(* C11.  In the lifecycle Reset, Ack+Driver, feature negotiation, rejected *)
(* FEATURES_OK: from the moment StatusFeaturesOK has reported              *)
(* not-supported the status register never shows DRIVER_OK, and the only   *)
(* step that follows is the Reset that restarts the sequence; DRIVER_OK is  *)
(* only ever seen together with a latched FEATURES_OK.                     *)
(***************************************************************************)
C11_NoDriverOkAfterReject ==
    [][/\ (last'.op = "StatusFeaturesOK" /\ last'.value = ZX_ERR_NOT_SUPPORTED)
            => phase' = "aborted"
       /\ phase' = "aborted" => ~HasBit(dev'.status, VIRTIO_STATUS_DRIVER_OK)
       /\ phase = "aborted" => (last'.op = "Reset" /\ dev'.status = 0)
       /\ HasBit(dev'.status, VIRTIO_STATUS_DRIVER_OK)
            => HasBit(dev'.status, VIRTIO_STATUS_FEATURES_OK)
      ]_vars

\* a restart after a rejected FEATURES_OK has again reached the rejection
C11_Witness ==
    /\ phase = "aborted"
    /\ last.op = "StatusFeaturesOK"
    /\ last.value = ZX_ERR_NOT_SUPPORTED
    /\ ~dev.accepts
    /\ dev.status = BitOr(VIRTIO_STATUS_ACKNOWLEDGE, VIRTIO_STATUS_DRIVER)


(***************************************************************************)
(* The interrupt-service thread.  Device::StartIrqThread creates a thread  *)
(* that runs Device::IrqWorker; Device::Release gives up the interrupt     *)
(* resource.  In the backend generation the loop reaches the handle        *)
(* through backend_, which Release destroys: ~Backend closes the handle    *)
(* and backend_ is null from then on.  The callbacks IrqRingUpdate and     *)
(* IrqConfigChange belong to the concrete driver; a call is recorded in    *)
(* the events of the loop iteration.                                       *)
(***************************************************************************)
VIRTIO_ISR_QUEUE_INT == 1
VIRTIO_ISR_DEV_CFG_INT == 2

\* what the ISR register can hold when it is read
IsrValues == {0, 1, 2, 3, 4}

\* the status IrqWorker gets: PciModernBackend::IsrStatus masks the value
\* with the two interrupt bits; PciLegacyBackend::IsrStatus applies the
\* mask to the port address and hands back the byte of the port it then
\* reads, the embedded transport reads the register as it is: both hand
\* back the byte read, unmasked
IsrStatus(raw) ==
    IF impl = "modern"
    THEN BitAnd(raw, BitOr(VIRTIO_ISR_QUEUE_INT, VIRTIO_ISR_DEV_CFG_INT))
    ELSE raw

\* the successful path through one loop iteration
IrqWorkerNext_AckFirst(at) ==
    CASE at = "wait" -> "complete"
      [] at = "complete" -> "read"
      [] at = "read" -> "dispatch"

IrqWorkerNext(at) ==
    CASE at = "wait" -> "read"
      [] at = "read" -> "complete"
      [] at = "complete" -> "dispatch"

\* where zx_interrupt_wait's result leads
AfterWaitResult_IgnoreError(ok) ==
    IrqWorkerNext("wait")

AfterWaitResult(ok) ==
    IF ok THEN IrqWorkerNext("wait") ELSE "top"

\* the callbacks one status value leads to, in call order
Callbacks_ElseIf(irq_status) ==
    IF HasBit(irq_status, VIRTIO_ISR_QUEUE_INT) THEN << "IrqRingUpdate" >>
    ELSE IF HasBit(irq_status, VIRTIO_ISR_DEV_CFG_INT) THEN << "IrqConfigChange" >>
    ELSE <<>>

Callbacks(irq_status) ==
    (IF HasBit(irq_status, VIRTIO_ISR_QUEUE_INT) THEN << "IrqRingUpdate" >> ELSE <<>>)
    \o (IF HasBit(irq_status, VIRTIO_ISR_DEV_CFG_INT) THEN << "IrqConfigChange" >> ELSE <<>>)

\* a thread that has been created and has neither returned nor faulted
InLoop == {"top", "wait", "read", "complete", "dispatch"}
Live(t) == thr[t].pc \in InLoop \cup {"entry"}

\* a fault in one thread ends the process
Alive == \A t \in Threads : thr[t].pc # "crashed"

\* the thread dereferences backend_ after Release has reset it
NullBackend == gen = "backend" /\ backend_ = "null"

ThreadGoes(t, to, status, events) ==
    /\ thr' = [thr EXCEPT ![t] = [pc |-> to, irq_status |-> status, events |-> events]]
    /\ UNCHANGED <<bindVars, irq_handle_, regVars, lifeVars, backend_, lockVars, copyVars, extVars>>

\* Device::StartIrqThread: thrd_create_with_name, thrd_detach
StartIrqThread ==
    /\ Alive
    /\ \E t \in Threads :
         /\ thr[t].pc = "none"
         /\ \A u \in Threads : u < t => thr[u].pc # "none"
         /\ ThreadGoes(t, "entry", 0, <<>>)

\* Device::Release
Release ==
    /\ Alive
    /\ irq_handle_ # ZX_HANDLE_INVALID
    /\ irq_handle_' = ZX_HANDLE_INVALID
    /\ backend_' = IF gen = "backend" THEN "null" ELSE backend_
    /\ UNCHANGED <<bindVars, regVars, lifeVars, thr, lockVars, copyVars, extVars>>

\* IrqThreadEntry, up to the loop; the embedded IrqWorker starts with
\* assert(irq_handle_), which a release build compiles out
AtEntry(t) ==
    /\ thr[t].pc = "entry"
    /\ \E to \in {"top", "crashed"} :
         /\ to = "crashed" => (gen = "device" /\ irq_handle_ = ZX_HANDLE_INVALID)
         /\ ThreadGoes(t, to, 0, <<>>)

\* while (irq_handle_) / while (backend_->irq_handle()).  Through a null
\* backend_ the read faults; a thread that loaded the pointer before
\* Release reset it reads the handle ~Backend has just zeroed
AtTop(t) ==
    /\ thr[t].pc = "top"
    /\ \E to \in {"wait", "exited", "crashed"} :
         /\ IF NullBackend
            THEN to \in {"crashed", "exited"}
            ELSE to = IF irq_handle_ # ZX_HANDLE_INVALID THEN "wait" ELSE "exited"
         /\ ThreadGoes(t, to, 0, <<>>)

\* zx_interrupt_wait returns; on a closed handle only with an error
AtWait(t) ==
    /\ thr[t].pc = "wait"
    /\ \E ok \in BOOLEAN :
         /\ ok => irq_handle_ # ZX_HANDLE_INVALID
         /\ ThreadGoes(t, AfterWaitResult(ok), 0,
                       << IF ok THEN "wait_ok" ELSE "wait_error" >>)

\* irq_status = IsrStatus()
AtRead(t) ==
    /\ thr[t].pc = "read"
    /\ IF NullBackend
       THEN ThreadGoes(t, "crashed", thr[t].irq_status, thr[t].events)
       ELSE \E raw \in IsrValues :
              ThreadGoes(t, IrqWorkerNext("read"), IsrStatus(raw),
                         Append(thr[t].events, "isr_read"))

\* zx_interrupt_complete; a failure skips the rest of the iteration
AtComplete(t) ==
    /\ thr[t].pc = "complete"
    /\ IF NullBackend
       THEN ThreadGoes(t, "crashed", thr[t].irq_status, thr[t].events)
       ELSE \E ok \in BOOLEAN :
              /\ ok => irq_handle_ # ZX_HANDLE_INVALID
              /\ ThreadGoes(t, IF ok THEN IrqWorkerNext("complete") ELSE "top",
                            thr[t].irq_status,
                            Append(thr[t].events, IF ok THEN "complete" ELSE "complete_error"))

\* if (irq_status == 0) continue; the two tests and the callbacks
AtDispatch(t) ==
    /\ thr[t].pc = "dispatch"
    /\ ThreadGoes(t, "top", thr[t].irq_status,
                  IF thr[t].irq_status = 0
                  THEN thr[t].events
                  ELSE thr[t].events \o Callbacks(thr[t].irq_status))

IrqWorker(t) ==
    /\ Alive
    /\ \/ AtEntry(t)
       \/ AtTop(t)
       \/ AtWait(t)
       \/ AtRead(t)
       \/ AtComplete(t)
       \/ AtDispatch(t)

IrqThreadEntry == Alive /\ \E t \in Threads : AtEntry(t)
LoopCondition == Alive /\ \E t \in Threads : AtTop(t)
InterruptWait == Alive /\ \E t \in Threads : AtWait(t)
IsrRead == Alive /\ \E t \in Threads : AtRead(t)
InterruptComplete == Alive /\ \E t \in Threads : AtComplete(t)
IrqDispatch == Alive /\ \E t \in Threads : AtDispatch(t)

NextIrq ==
    \/ StartIrqThread
    \/ Release
    \/ IrqThreadEntry
    \/ LoopCondition
    \/ InterruptWait
    \/ IsrRead
    \/ InterruptComplete
    \/ IrqDispatch

\* the bound transports, with one notify layout
InitIrq ==
    /\ InitBound
    /\ dev.accepts
    /\ regs.notify_off_mul \in {0, 2}

SpecIrq == InitIrq /\ [][NextIrq]_vars

\* every created thread is scheduled again and again, and its calls return
FairSpecIrq == SpecIrq /\ \A t \in Threads : WF_vars(IrqWorker(t))


\* how often a loop iteration's events hold e
Times(events, e) == Cardinality({k \in DOMAIN events : events[k] = e})

C13_ReadBeforeAck ==
    [][\A t \in Threads :
         LET e == thr'[t].events IN
           /\ \A k \in DOMAIN e :
                /\ e[k] = "isr_read" => (k = 2 /\ e[1] = "wait_ok")
                /\ e[k] \in {"complete", "complete_error"} => (k = 3 /\ e[2] = "isr_read")
                /\ e[k] = "IrqRingUpdate" =>
                     (k > 3 /\ e[3] = "complete"
                      /\ HasBit(thr'[t].irq_status, VIRTIO_ISR_QUEUE_INT))
                /\ e[k] = "IrqConfigChange" =>
                     (k > 3 /\ e[3] = "complete"
                      /\ HasBit(thr'[t].irq_status, VIRTIO_ISR_DEV_CFG_INT))
           /\ (thr[t].pc \in {"complete", "dispatch"} /\ thr'[t].pc # "crashed")
                => thr'[t].irq_status = thr[t].irq_status
      ]_vars

\* a callback has run on a status read before the acknowledgement
C13_Witness ==
    \E t \in Threads :
      /\ thr[t].events = << "wait_ok", "isr_read", "complete", "IrqConfigChange" >>
      /\ thr[t].irq_status = VIRTIO_ISR_DEV_CFG_INT

(***************************************************************************)
(* C14.  A Device never has more than one interrupt-service thread, also   *)
(* when StartIrqThread is called more than once.                           *)
(***************************************************************************)
C14_AtMostOneIrqThread ==
    Cardinality({t \in Threads : Live(t)}) <= 1

(***************************************************************************)
(* C15.  Once Release has given up the interrupt resource, a thread that   *)
(* is in the interrupt-service loop eventually leaves the loop and         *)
(* returns.                                                                *)
(***************************************************************************)
C15_ReleasedThreadExits ==
    \A t \in Threads :
      (irq_handle_ = ZX_HANDLE_INVALID /\ thr[t].pc \in InLoop) ~> (thr[t].pc = "exited")

(***************************************************************************)
(* C16.  A failed interrupt wait on a valid interrupt resource is followed *)
(* in that iteration by no acknowledgement and no callback: the thread     *)
(* goes back to the loop condition and from there into the next wait.  A   *)
(* thread ends only after the interrupt resource has been invalidated.     *)
(***************************************************************************)
C16_WaitErrorRetries ==
    [][\A t \in Threads :
         LET a == thr[t]
             b == thr'[t]
         IN /\ (a.pc = "wait" /\ b # a /\ b.events = << "wait_error" >>) => b.pc = "top"
            /\ (Len(b.events) >= 1 /\ b.events[1] = "wait_error") => Len(b.events) = 1
            /\ (a.pc = "top" /\ b # a /\ irq_handle_ # ZX_HANDLE_INVALID)
                 => (b.pc = "wait" /\ b.events = <<>>)
            /\ (b.pc \in {"exited", "crashed"} /\ a.pc \notin {"exited", "crashed"})
                 => irq_handle_ = ZX_HANDLE_INVALID
      ]_vars

\* a wait has failed on a valid resource and the thread is about to wait again
C16_Witness ==
    \E t \in Threads :
      /\ thr[t].pc = "top"
      /\ thr[t].events = << "wait_error" >>
      /\ irq_handle_ # ZX_HANDLE_INVALID
      /\ backend_ = "live"


(***************************************************************************)
(* Callers on several threads of the driver use one Backend.  Every        *)
(* operation starts with fbl::AutoLock lock(&backend_lock_), makes its     *)
(* register accesses one by one and releases the lock when it returns.     *)
(* bus holds, for the operations that have not returned yet, who made each *)
(* register access, in the order the accesses reached the device.          *)
(***************************************************************************)
BackendStatusOrIo(d, bits) ==
    LET r1 == BackendStatusRd(d) IN << r1, BackendStatusWr(BitOr(N8(r1.val), bits)) >>

\* the operations that take backend_lock_ for their whole body
HoldsLock_NotGetRingSize(op) ==
    op \in {"SetRing", "RingKick", "DeviceReset", "DriverStatusAck",
            "DriverStatusOk", "DeviceConfigRead", "DeviceConfigWrite"}

\* the status read-modify-writes left without the lock
HoldsLock_NotStatus(op) ==
    op \in {"SetRing", "GetRingSize", "RingKick", "DeviceReset",
            "DeviceConfigRead", "DeviceConfigWrite"}

HoldsLock(op) ==
    op \in {"SetRing", "GetRingSize", "RingKick", "DeviceReset", "DriverStatusAck",
            "DriverStatusOk", "DeviceConfigRead", "DeviceConfigWrite"}

CallerRingArgs == {a \in RingArgs : a.pa_desc[3] = 1}
CallerCfgValues == {v \in U64Values : v[1] = 2}

\* the accesses of one operation on register file d
BackendIo(d, op, args) ==
    CASE op = "SetRing" ->
           IF impl = "modern"
           THEN ModernSetRingIo(args.index, args.count, args.pa_desc, args.pa_avail,
                                args.pa_used)
           ELSE LegacySetRingIo(args.index, args.count, args.pa_desc)
      [] op = "GetRingSize" ->
           IF impl = "modern" THEN ModernGetRingSizeIo(d, args.index)
           ELSE LegacyGetRingSizeIo(d, args.index)
      [] op = "RingKick" ->
           IF impl = "modern" THEN ModernRingKickIo(d, args.ring_index)
           ELSE LegacyRingKickIo(args.ring_index)
      [] op = "DeviceReset" -> << BackendStatusWr(0) >>
      [] op = "DriverStatusAck" ->
           BackendStatusOrIo(d, IF impl = "legacy"
                                THEN BitOr(VIRTIO_STATUS_ACKNOWLEDGE, VIRTIO_STATUS_DRIVER)
                                ELSE VIRTIO_STATUS_ACKNOWLEDGE)
      [] op = "DriverStatusOk" -> BackendStatusOrIo(d, VIRTIO_STATUS_DRIVER_OK)
      [] op = "DeviceConfigRead" ->
           IF impl = "modern" THEN MmioRead64(d, regs.device_cfg + args.offset)
           ELSE LegacyRead64(d, args.offset)
      [] op = "DeviceConfigWrite" ->
           IF impl = "modern" THEN MmioWrite64(regs.device_cfg + args.offset, args.value)
           ELSE << Wr("pio", Port(legacy_.device_cfg_offset_ + args.offset),
                      CastU32(args.value)) >>

\* entering an operation: the AutoLock constructor returns once the lock is
\* free; the accesses that follow are those of the operation run on the
\* registers as they are now
Enter(c, op, args) ==
    /\ callers[c].op = "none"
    /\ HoldsLock(op) => backend_lock_ = 0
    /\ backend_lock_' = IF HoldsLock(op) THEN c ELSE backend_lock_
    /\ callers' = [callers EXCEPT ![c] = [op |-> op, args |-> args,
                                          plan |-> BackendIo(dev, op, args), done |-> <<>>]]
    /\ UNCHANGED <<discVars, regVars, lifeVars, irqVars, copyVars, extVars, bus>>

CallSetRing ==
    /\ backend_ = "live"
    /\ \E c \in Callers, index \in RingIndices, count \in RingCounts, a \in CallerRingArgs :
         Enter(c, "SetRing", [index |-> index, count |-> count, pa_desc |-> a.pa_desc,
                              pa_avail |-> a.pa_avail, pa_used |-> a.pa_used])

CallGetRingSize ==
    /\ backend_ = "live"
    /\ \E c \in Callers, index \in RingIndices : Enter(c, "GetRingSize", [index |-> index])

CallRingKick ==
    /\ backend_ = "live"
    /\ \E c \in Callers, index \in RingIndices : Enter(c, "RingKick", [ring_index |-> index])

CallDeviceReset ==
    /\ backend_ = "live"
    /\ \E c \in Callers : Enter(c, "DeviceReset", <<>>)

CallDriverStatusAck ==
    /\ backend_ = "live"
    /\ \E c \in Callers : Enter(c, "DriverStatusAck", <<>>)

CallDriverStatusOk ==
    /\ backend_ = "live"
    /\ \E c \in Callers : Enter(c, "DriverStatusOk", <<>>)

CallDeviceConfigRead ==
    /\ backend_ = "live"
    /\ \E c \in Callers : Enter(c, "DeviceConfigRead", [offset |-> 0])

CallDeviceConfigWrite ==
    /\ backend_ = "live"
    /\ \E c \in Callers, value \in CallerCfgValues :
         Enter(c, "DeviceConfigWrite", [offset |-> 0, value |-> value])

\* the next register access of an operation reaches the device; a read
\* returns what the register holds at that moment
RegisterAccess ==
    \E c \in Callers :
      /\ callers[c].op # "none"
      /\ Len(callers[c].done) < Len(callers[c].plan)
      /\ LET p == callers[c].plan[Len(callers[c].done) + 1]
             a == IF p.rw = "r" THEN Rd(dev, p.space, p.addr, p.width \div 8) ELSE p
         IN /\ dev' = Run(dev, << a >>)
            /\ callers' = [callers EXCEPT ![c].done = Append(@, a)]
            /\ bus' = Append(bus, c)
      /\ UNCHANGED <<discVars, impl, legacy_, io, last, lifeVars, irqVars, copyVars, extVars, backend_lock_>>

\* the operation returns; ~AutoLock releases the lock
Return ==
    \E c \in Callers :
      /\ callers[c].op # "none"
      /\ Len(callers[c].done) = Len(callers[c].plan)
      /\ io' = callers[c].done
      /\ last' = [op |-> callers[c].op, args |-> callers[c].args, value |-> <<>>]
      /\ callers' = [callers EXCEPT ![c] = IdleCaller]
      /\ backend_lock_' = IF backend_lock_ = c THEN 0 ELSE backend_lock_
      /\ bus' = SelectSeq(bus, LAMBDA x : x # c)
      /\ UNCHANGED <<discVars, impl, legacy_, dev, lifeVars, irqVars, copyVars, extVars>>

NextLock ==
    \/ CallSetRing
    \/ CallGetRingSize
    \/ CallRingKick
    \/ CallDeviceReset
    \/ CallDriverStatusAck
    \/ CallDriverStatusOk
    \/ CallDeviceConfigRead
    \/ CallDeviceConfigWrite
    \/ RegisterAccess
    \/ Return

\* a bound Modern or Legacy backend
InitLock ==
    /\ InitBound
    /\ gen = "backend"
    /\ dev.accepts
    /\ regs.notify_off_mul \in {0, 2}

SpecLock == InitLock /\ [][NextLock]_vars

(***************************************************************************)
(* C17.  However the callers' operations interleave, the register accesses *)
(* of an operation reach the device as one block: between its first and    *)
(* its last access the device sees no access of another operation, the     *)
(* caller holds backend_lock_ throughout, the queue it selected stays      *)
(* selected until it returns, and every value it reads is the one an       *)
(* uninterrupted run of the operation reads.                               *)
(***************************************************************************)
C17_OneBlockPerOperation ==
    /\ \A j, k \in DOMAIN bus : bus[j] = bus[k]
    /\ \A c \in Callers :
         callers[c].op # "none" =>
           /\ backend_lock_ = c
           /\ \A k \in DOMAIN callers[c].done : callers[c].done[k] = callers[c].plan[k]
           /\ (callers[c].op \in {"SetRing", "GetRingSize"} /\ impl = "modern"
               /\ Len(callers[c].done) >= 1)
                => dev.queue_select = callers[c].args.index

\* one caller is between the queue_select write and the writes that depend
\* on it while the other has been through an operation of its own
C17_Witness ==
    /\ impl = "modern"
    /\ callers[1].op = "SetRing"
    /\ Len(callers[1].done) = 3
    /\ callers[1].args.index = 3
    /\ callers[2].op = "none"
    /\ last.op = "GetRingSize"
    /\ last.args.index = 2


(***************************************************************************)
(* C21.  PciBackend::Bind runs enable-bus-mastering, set-interrupt-mode,   *)
(* map-interrupt and Init in this order; the first step that fails ends    *)
(* Bind with an error and no later step runs; Bind returns ZX_OK only when *)
(* all four steps succeeded, and irq_handle() is then the mapped interrupt  *)
(* handle.                                                                 *)
(***************************************************************************)
C21_BindStepOrder ==
    gen = "backend" =>
      LET n == Len(bus_calls)
          Is(k, name) == bus_calls[k].call = name
          InitRan == pc = "walk" \/ cap_reads # 0 \/ regs # InitRegs
                     \/ (\E b \in Bars : map_ok[b] # 0) \/ ret \in {ZX_OK, ZX_ERR_BAD_STATE}
          StepFailed(k) == /\ ~bus_calls[k].ok
                           /\ ~Is(k, "set_irq_mode_msi")
      IN /\ n >= 1 => Is(1, "enable_bus_master")
         /\ n >= 2 => (bus_calls[1].ok /\ Is(2, "set_irq_mode_msi"))
         /\ n >= 3 => IF bus_calls[2].ok THEN Is(3, "map_interrupt")
                      ELSE Is(3, "set_irq_mode_legacy")
         /\ n >= 4 => (Is(3, "set_irq_mode_legacy") /\ bus_calls[3].ok
                       /\ Is(4, "map_interrupt"))
         /\ n <= 4
         /\ \A k \in 1..n : StepFailed(k) =>
              /\ k = n
              /\ pc = "done"
              /\ ret \notin {ZX_OK, "none"}
              /\ ~InitRan
              /\ irq_handle_ = ZX_HANDLE_INVALID
         /\ InitRan => (n >= 3 /\ bus_calls[n] = Call("map_interrupt", TRUE))
         /\ (pc = "done" /\ ret = ZX_OK) =>
              /\ n >= 3
              /\ \A k \in 1..n : bus_calls[k].ok \/ Is(k, "set_irq_mode_msi")
              /\ AllResolved(regs)
              /\ irq_handle_ # ZX_HANDLE_INVALID

\* Bind has returned ZX_OK after falling back to the line-based mode
C21_Witness ==
    /\ gen = "backend"
    /\ pc = "done"
    /\ ret = ZX_OK
    /\ Len(bus_calls) = 4
    /\ bus_calls[4] = Call("map_interrupt", TRUE)
    /\ irq_handle_ # ZX_HANDLE_INVALID

(***************************************************************************)
(* C22.  When Bind returns a discovery or setup error, the Backend holds   *)
(* nothing of the failed attempt: no interrupt handle, no mapped BAR and   *)
(* no resolved register address.                                           *)
(***************************************************************************)
C22_FailedBindLeavesNothing ==
    (gen = "backend" /\ pc = "done" /\ ret # ZX_OK) =>
      /\ irq_handle_ = ZX_HANDLE_INVALID
      /\ \A b \in Bars : bar_[b].mmio_handle = ZX_HANDLE_INVALID /\ bar_[b].mmio_base = 0
      /\ regs.common_cfg = 0
      /\ regs.notify_base = 0
      /\ regs.isr_status = 0
      /\ regs.device_cfg = 0

(***************************************************************************)
(* Device::CopyDeviceConfig, one loop iteration per step.  The Device      *)
(* over a Backend counts with a uint16_t against a size_t len and reads    *)
(* through the Backend's one-byte DeviceConfigRead; the embedded           *)
(* Device counts with a size_t and reads the device_config region, or      *)
(* BAR0 past the legacy header.  copy.n counts the reads made, copy.buf    *)
(* is the head of the caller's buffer.                                     *)
(***************************************************************************)
MaxCopyLen == 3
CopyLens == 0..MaxCopyLen

\* the first len a uint16_t counter cannot reach
UINT16_MAX == 65535
LongCopyLen == UINT16_MAX + 1

\* iterations of the long copy that lie before the first state looked at
CopyResume == 65530

\* reads after which a copy is not followed further
CopyReadCap == LongCopyLen + MaxCopyLen

VIRTIO_PCI_CONFIG_OFFSET_NOMSI == 20

CopyBuf(filled) == [a \in CfgBytes |-> IF a < filled THEN dev.cfg[a] ELSE 0]

\* the loop counter's i++
CopyCount(c) == IF gen = "backend" THEN (c + 1) % (UINT16_MAX + 1) ELSE c + 1

\* the register read of iteration c
CopyRead(d, c) ==
    IF gen = "backend"
    THEN IF impl = "modern"
         THEN Rd(d, "mmio", regs.device_cfg + c, 1)
         ELSE Rd(d, "pio", Port(legacy_.device_cfg_offset_ + c), 1)
    ELSE IF regs.device_cfg # 0
         THEN Rd(d, "mmio", regs.device_cfg + c, 1)
         ELSE ReadConfigBar(d, (VIRTIO_PCI_CONFIG_OFFSET_NOMSI + c) % 65536, 1)

CopyDeviceConfigCall ==
    /\ copy.pc = "idle"
    /\ \E len \in CopyLens :
         /\ copy' = [pc |-> "loop", len |-> len, i |-> 0, n |-> 0, buf |-> CopyBuf(0),
                     st |-> "none"]
         /\ last' = [op |-> "CopyDeviceConfig", args |-> [len |-> len], value |-> <<>>]
    /\ io' = <<>>
    /\ UNCHANGED <<discVars, impl, legacy_, dev, lifeVars, irqVars, lockVars, extVars>>

CopyDeviceConfigStep ==
    /\ copy.pc = "loop"
    /\ copy.i < copy.len
    /\ copy.n < CopyReadCap
    /\ LET acc == CopyRead(dev, copy.i) IN
         /\ io' = <<acc>>
         /\ dev' = Run(dev, <<acc>>)
         /\ copy' = [copy EXCEPT !.i = CopyCount(copy.i), !.n = copy.n + 1,
                                 !.buf = IF copy.i \in CfgBytes
                                         THEN [copy.buf EXCEPT ![copy.i] = N8(acc.val)]
                                         ELSE copy.buf]
    /\ UNCHANGED <<discVars, impl, legacy_, last, lifeVars, irqVars, lockVars, extVars>>

CopyDeviceConfigReturn ==
    /\ copy.pc = "loop"
    /\ ~(copy.i < copy.len)
    /\ copy' = [copy EXCEPT !.pc = "done", !.st = ZX_OK]
    /\ last' = [last EXCEPT !.value = ZX_OK]
    /\ io' = <<>>
    /\ UNCHANGED <<discVars, impl, legacy_, dev, lifeVars, irqVars, lockVars, extVars>>

NextCopy == CopyDeviceConfigCall \/ CopyDeviceConfigStep \/ CopyDeviceConfigReturn

\* a bound driver before the call, or CopyResume iterations into a copy of
\* LongCopyLen bytes
InitCopy ==
    /\ \E t \in Transports, accepts \in BOOLEAN :
         /\ dev = DevInit(t.noff, accepts)
         /\ impl = t.impl
         /\ gen = t.gen
         /\ regs = t.regs
         /\ bar_ = t.bar_
         /\ bar0_pio_base_ = t.pio
         /\ legacy_ = t.legacy_
         /\ map_ok = [b \in Bars |-> IF t.bar_[b].mmio_handle # ZX_HANDLE_INVALID THEN 1 ELSE 0]
    /\ caps = <<>>
    /\ tail = 0
    /\ pc = "done"
    /\ off = 0
    /\ i = 0
    /\ irq_handle_ = 1
    /\ ret = ZX_OK
    /\ bus_calls = <<>>
    /\ mapbar = NoCall
    /\ cap_reads = 0
    /\ phase = "none"
    /\ backend_ = "live"
    /\ thr = [t \in Threads |-> NoThread]
    /\ backend_lock_ = 0
    /\ callers = [c \in Callers |-> IdleCaller]
    /\ bus = <<>>
    /\ frames = NoCalls
    /\ pmo = NoPmo
    /\ \/ /\ copy = NoCopy
          /\ io = <<>>
          /\ last = NoOp
       \/ /\ copy = [pc |-> "loop", len |-> LongCopyLen, i |-> CopyResume, n |-> CopyResume,
                     buf |-> CopyBuf(CopyResume), st |-> "none"]
          /\ io = <<CopyRead(dev, CopyResume - 1)>>
          /\ last = [op |-> "CopyDeviceConfig", args |-> [len |-> LongCopyLen], value |-> <<>>]

SpecCopy == InitCopy /\ [][NextCopy]_vars

\* where the byte at device-config offset k is read: the region's base plus
\* k, in a port space of 16 address bits for the port-mapped transports
CfgAddr(k) ==
    IF impl = "modern" \/ (impl = "device" /\ regs.device_cfg # 0)
    THEN regs.device_cfg + k
    ELSE IF impl = "legacy"
         THEN Port(legacy_.bar0_base_ + VIRTIO_PCI_CONFIG_OFFSET_NOMSIX + k)
         ELSE IF bar0_pio_base_ # 0
              THEN Port(bar0_pio_base_ + VIRTIO_PCI_CONFIG_OFFSET_NOMSI + k)
              ELSE bar_[0].mmio_base + ((VIRTIO_PCI_CONFIG_OFFSET_NOMSI + k) % 65536)

(***************************************************************************)
(* C23: Device::CopyDeviceConfig(buf, len) performs exactly len            *)
(* device-config reads, each one byte wide, at the offsets 0, 1, ...,      *)
(* len - 1 in ascending order, stores the byte read at offset i in buf[i]  *)
(* and returns ZX_OK: the read made after k earlier ones is the one of     *)
(* offset k < len, and the call returns after len reads.                   *)
(***************************************************************************)
C23_CopyReadsEachOffsetOnce ==
    [][/\ copy'.n = copy.n + 1 =>
            /\ copy.n < copy.len
            /\ Len(io') = 1
            /\ io'[1].rw = "r"
            /\ io'[1].width = 8
            /\ io'[1].addr = CfgAddr(copy.n)
            /\ copy.n \in CfgBytes => copy'.buf[copy.n] = N8(io'[1].val)
       /\ (copy.pc = "loop" /\ copy'.pc = "done") =>
            /\ copy'.n = copy'.len
            /\ copy'.st = ZX_OK
            /\ \A a \in CfgBytes : a < copy'.len => copy'.buf[a] = dev'.cfg[a]]_vars

(***************************************************************************)
(* The Legacy backend from construction on: PciBackend::Bind with          *)
(* PciLegacyBackend::Init, then the port-I/O operations of the bound       *)
(* backend.  The constructor initialises neither bar0_base_ nor            *)
(* device_cfg_offset_: they start with whatever the memory holds.          *)
(***************************************************************************)
ZX_ERR_WRONG_TYPE == "ZX_ERR_WRONG_TYPE"

\* what pci_get_resource(PCI_RESOURCE_BAR_0) can answer: a failure, a
\* memory BAR, an I/O BAR at 0xc000 or at 0x1c040
Bar0Resources ==
    {[st |-> ZX_ERR_BUS, type |-> "UNUSED", pio_addr |-> 0],
     [st |-> ZX_OK, type |-> "MMIO", pio_addr |-> 0],
     [st |-> ZX_OK, type |-> "PIO", pio_addr |-> LegacyPioBase],
     [st |-> ZX_OK, type |-> "PIO", pio_addr |-> 65536 + LegacyPioBase + 64]}

UninitLegacy == {NoLegacy, [bar0_base_ |-> 4660, device_cfg_offset_ |-> 22136]}

\* Init with the BAR type left unchecked
LegacyInit_AnyType(res, l) ==
    IF res.st # ZX_OK
    THEN [st |-> res.st, legacy_ |-> l]
    ELSE LET base == res.pio_addr % 65536 IN
           [st |-> ZX_OK,
            legacy_ |-> [bar0_base_ |-> base,
                         device_cfg_offset_ |-> Port(base + VIRTIO_PCI_CONFIG_OFFSET_NOMSIX)]]

\* PciLegacyBackend::Init: the status returned and the two fields after it
LegacyInit(res, l) ==
    IF res.st # ZX_OK
    THEN [st |-> res.st, legacy_ |-> l]
    ELSE IF res.type # "PIO"
    THEN [st |-> ZX_ERR_WRONG_TYPE, legacy_ |-> l]
    ELSE LET base == res.pio_addr % 65536 IN
           [st |-> ZX_OK,
            legacy_ |-> [bar0_base_ |-> base,
                         device_cfg_offset_ |-> Port(base + VIRTIO_PCI_CONFIG_OFFSET_NOMSIX)]]

\* PciBackend::Bind of a Legacy backend
LegacyBind ==
    /\ gen = "backend"
    /\ impl = "legacy"
    /\ pc = "idle"
    /\ \E bm_ok, msi_ok, legacy_ok, irq_ok \in BOOLEAN, res \in Bar0Resources :
         LET p == BindPrelude(bm_ok, msi_ok, legacy_ok, irq_ok)
             r == LegacyInit(res, legacy_)
         IN /\ bus_calls' = p.calls
            /\ irq_handle_' = p.irq
            /\ IF p.st # ZX_OK
               THEN /\ ret' = p.st
                    /\ legacy_' = legacy_
                    /\ last' = NoOp
               ELSE /\ ret' = r.st
                    /\ legacy_' = r.legacy_
                    /\ last' = [op |-> "Init", args |-> res, value |-> r.st]
    /\ pc' = "done"
    /\ UNCHANGED <<gen, caps, tail, off, i, bar_, regs, bar0_pio_base_, map_ok, mapbar,
                   cap_reads, impl, dev, io, auxVars>>

\* the driver uses the backend that Bind has set up
LegacyUse ==
    /\ pc = "done"
    /\ ret = ZX_OK
    /\ LegacySetRing \/ LegacyRingKick \/ LegacyDeviceConfigRead64

NextLegacy == LegacyBind \/ LegacyUse

InitLegacy ==
    /\ gen = "backend"
    /\ impl = "legacy"
    /\ legacy_ \in UninitLegacy
    /\ caps = <<>>
    /\ tail = 0
    /\ pc = "idle"
    /\ off = 0
    /\ i = 0
    /\ bar_ = UnmappedBars
    /\ regs = InitRegs
    /\ bar0_pio_base_ = 0
    /\ irq_handle_ = ZX_HANDLE_INVALID
    /\ ret = "none"
    /\ bus_calls = <<>>
    /\ map_ok = [b \in Bars |-> 0]
    /\ mapbar = NoCall
    /\ cap_reads = 0
    /\ dev = DevInit(0, TRUE)
    /\ io = <<>>
    /\ last = NoOp
    /\ AuxIdle

SpecLegacy == InitLegacy /\ [][NextLegacy]_vars

(***************************************************************************)
(* C24: Legacy Init returns an error when BAR0 cannot be obtained (the     *)
(* status of the lookup) or is not a port-I/O BAR (ZX_ERR_WRONG_TYPE) and  *)
(* then leaves the I/O base and the device-config offset as they were; on  *)
(* success the I/O base is the BAR's port address and the device-config    *)
(* offset is the I/O base plus VIRTIO_PCI_CONFIG_OFFSET_NOMSIX.            *)
(***************************************************************************)
C24_LegacyInit ==
    [][(pc = "idle" /\ pc' = "done" /\ last'.op = "Init") =>
         LET res == last'.args IN
           /\ res.st # ZX_OK => (ret' = res.st /\ legacy_' = legacy_)
           /\ (res.st = ZX_OK /\ res.type # "PIO") =>
                (ret' = ZX_ERR_WRONG_TYPE /\ legacy_' = legacy_)
           /\ (res.st = ZX_OK /\ res.type = "PIO") =>
                /\ ret' = ZX_OK
                /\ legacy_'.bar0_base_ = res.pio_addr % 65536
                /\ legacy_'.device_cfg_offset_
                     = (legacy_'.bar0_base_ + VIRTIO_PCI_CONFIG_OFFSET_NOMSIX) % 65536
           /\ ret' # ZX_OK <=> (res.st # ZX_OK \/ res.type # "PIO")]_vars

C24_Witness ==
    /\ impl = "legacy"
    /\ pc = "done"
    /\ last.op = "Init"
    /\ last.args.type = "MMIO"
    /\ ret = ZX_ERR_WRONG_TYPE
    /\ legacy_ \in UninitLegacy

(***************************************************************************)
(* C25: a Backend's resolved register addresses are immutable once set: a  *)
(* slot of common_cfg, notify_base, isr_status, device_cfg that holds an   *)
(* address keeps it in every later step, also when a later capability      *)
(* record of the same cfg_type is read from the list.                      *)
(***************************************************************************)
C25_ResolvedAddressesImmutable ==
    [][gen = "backend" =>
         /\ regs.common_cfg # 0 => regs'.common_cfg = regs.common_cfg
         /\ regs.notify_base # 0 => regs'.notify_base = regs.notify_base
         /\ regs.isr_status # 0 => regs'.isr_status = regs.isr_status
         /\ regs.device_cfg # 0 => regs'.device_cfg = regs.device_cfg]_vars

(***************************************************************************)
(* The Modern backend until it is destroyed: discovery, then               *)
(* ~PciModernBackend, which may run on a backend that was never bound, on  *)
(* one whose Bind failed and on a bound one.                               *)
(***************************************************************************)
\* a destructor that resets the first entry of bar_ only
DestroyedBars_FirstOnly(b_) == [b_ EXCEPT ![0] = UnmappedBars[0]]

\* bar_ after the loop of ~PciModernBackend
DestroyedBars(b_) ==
    [b \in Bars |-> [mmio_base |-> 0, mmio_handle |-> ZX_HANDLE_INVALID]]

ModernDestructor ==
    /\ gen = "backend"
    /\ impl = "modern"
    /\ pc \in {"idle", "done"}
    /\ bar_' = DestroyedBars(bar_)
    /\ irq_handle_' = ZX_HANDLE_INVALID
    /\ pc' = "destroyed"
    /\ mapbar' = NoCall
    /\ UNCHANGED <<gen, caps, tail, off, i, regs, bar0_pio_base_, ret, bus_calls, map_ok,
                   cap_reads, regVars, auxVars>>

NextLife == Next \/ ModernDestructor

SpecLife == Init /\ [][NextLife]_vars

(***************************************************************************)
(* C26: a BarMapping is never reassigned: while the Backend lives, an      *)
(* entry of bar_ changes at most once, from unmapped (base 0, no handle)   *)
(* to mapped, by the one successful pci_map_resource of that BAR; and when *)
(* the Backend is destroyed all six entries are released.                  *)
(***************************************************************************)
C26_BarMappingLifetime ==
    [][gen = "backend" =>
         /\ \A b \in Bars :
              (bar_'[b] # bar_[b] /\ pc' # "destroyed") =>
                /\ bar_[b] = UnmappedBars[b]
                /\ bar_'[b].mmio_handle # ZX_HANDLE_INVALID
                /\ bar_'[b].mmio_base # 0
                /\ map_ok[b] = 0
                /\ map_ok'[b] = 1
         /\ pc' = "destroyed" =>
              \A b \in Bars : /\ bar_'[b].mmio_handle = ZX_HANDLE_INVALID
                              /\ bar_'[b].mmio_base = 0]_vars

C26_Witness ==
    /\ gen = "backend"
    /\ pc = "destroyed"
    /\ map_ok[0] = 1
    /\ map_ok[1] = 1
    /\ \A b \in Bars : bar_[b] = UnmappedBars[b]

(***************************************************************************)
(* C27: no interrupt cause is lost: a loop iteration whose ISR read had    *)
(* QUEUE_INT set has called IrqRingUpdate when it is over, and one whose   *)
(* read had DEV_CFG_INT set has called IrqConfigChange, also when          *)
(* acknowledging completion returned an error.  (The ISR read clears the   *)
(* register: a cause not dispatched in its iteration is not seen again.)   *)
(***************************************************************************)
C27_NoCauseLost ==
    \A t \in Threads :
      LET e == thr[t].events
          v == thr[t].irq_status
      IN (thr[t].pc = "top" /\ Times(e, "isr_read") = 1) =>
           /\ HasBit(v, VIRTIO_ISR_QUEUE_INT) => Times(e, "IrqRingUpdate") = 1
           /\ HasBit(v, VIRTIO_ISR_DEV_CFG_INT) => Times(e, "IrqConfigChange") = 1

(***************************************************************************)
(* C28: the interrupt thread never uses the Backend after Device::Release  *)
(* has destroyed it: once backend_ is reset no thread evaluates            *)
(* backend_->irq_handle() (the loop condition, the completion) or          *)
(* IsrStatus().                                                            *)
(***************************************************************************)
C28_NoUseAfterRelease ==
    [][\A t \in Threads :
         (NullBackend /\ thr[t].pc \in {"top", "read", "complete"}) => thr'[t] = thr[t]]_vars

(***************************************************************************)
(* C29: Modern RingKick(r) notifies ring r's own notification address: the *)
(* queue_notify_off that enters the address is the one of queue r, also    *)
(* when the queue selected last is another one.  Checked for the rings     *)
(* that SetRing has enabled.                                               *)
(***************************************************************************)
C29_KickOwnNotifyAddress ==
    (/\ last.op = "RingKick"
     /\ impl = "modern"
     /\ dev.queues[last.args.ring_index].enable = 1) =>
      io[Len(io)].addr
        = regs.notify_base
            + dev.queues[last.args.ring_index].notify_off * regs.notify_off_mul

(***************************************************************************)
(* C30: GetRingSize(index) returns the size of ring index whichever queue  *)
(* was selected before the call, on the Modern and on the Legacy backend.  *)
(***************************************************************************)
C30_RingSizeOfIndex ==
    (last.op = "GetRingSize" /\ gen = "backend") =>
      N16(last.value) = dev.queues[last.args.index].size

(***************************************************************************)
(* Backend::IsrStatus on the registers.  The device raises interrupt       *)
(* causes in its ISR register; a read of the register clears it.  A port   *)
(* outside the device's I/O BAR belongs to other hardware and reads as any *)
(* byte.                                                                   *)
(***************************************************************************)
\* bytes the ISR register, or a port of other hardware, can hold
IsrBytes == {0, 1, 2, 3, 4, 255}

IsrMask == BitOr(VIRTIO_ISR_QUEUE_INT, VIRTIO_ISR_DEV_CFG_INT)

\* the port PciLegacyBackend::IsrStatus reads
LegacyIsrPort == BitAnd(Port(legacy_.bar0_base_ + VIRTIO_PCI_ISR_STATUS), IsrMask)

\* a one-byte port read; other is what a port of other hardware holds
PortRead(d, port, other) ==
    IF port >= legacy_.bar0_base_ /\ port < legacy_.bar0_base_ + VIRTIO_PCI_CONFIG_OFFSET_NOMSIX
    THEN Rd(d, "pio", port, 1)
    ELSE [rw |-> "r", space |-> "pio", addr |-> port, width |-> 8, val |-> <<other>>]

\* the ISR register after the access: read-to-clear
IsrCleared(d, acc) ==
    IF \/ (acc.space = "mmio" /\ regs.isr_status # 0 /\ acc.addr = regs.isr_status)
       \/ (acc.space = "pio" /\ acc.addr = LegacyBase("pio") + VIRTIO_PCI_ISR_STATUS)
    THEN [d EXCEPT !.isr = 0]
    ELSE d

IsrStatusDone(acc, result) ==
    /\ io' = <<acc>>
    /\ dev' = IsrCleared(dev, acc)
    /\ last' = [op |-> "IsrStatus", args |-> [isr |-> dev.isr], value |-> U8(result)]

\* the device sets interrupt causes
RaiseInterrupt ==
    /\ \E v \in IsrBytes \ {0} : dev' = [dev EXCEPT !.isr = v]
    /\ io' = <<>>
    /\ last' = NoOp
    /\ UNCHANGED <<discVars, auxVars, impl, legacy_>>

ModernIsrStatus ==
    /\ impl = "modern"
    /\ LET acc == Rd(dev, "mmio", regs.isr_status, 4) IN
         IsrStatusDone(acc, BitAnd(N8(acc.val), IsrMask))
    /\ UNCHANGED <<discVars, auxVars, impl, legacy_>>

LegacyIsrStatus ==
    /\ impl = "legacy"
    /\ \E other \in IsrBytes :
         LET acc == PortRead(dev, LegacyIsrPort, other) IN
           IsrStatusDone(acc, N8(acc.val))
    /\ UNCHANGED <<discVars, auxVars, impl, legacy_>>

NextIsr == RaiseInterrupt \/ ModernIsrStatus \/ LegacyIsrStatus

InitIsr == InitBound /\ gen = "backend"

SpecIsr == InitIsr /\ [][NextIsr]_vars

(***************************************************************************)
(* C31: IsrStatus returns the current value of the ISR status register     *)
(* restricted to the QUEUE_INT and DEV_CFG_INT bits, on the Legacy backend *)
(* (port read at I/O base + ISR-status offset) as on the Modern backend    *)
(* (read at the ISR capability address): both return the same result for   *)
(* the same register value.                                                *)
(***************************************************************************)
C31_IsrStatusMasked ==
    (last.op = "IsrStatus" /\ gen = "backend") =>
      /\ N8(last.value) = BitAnd(last.args.isr, IsrMask)
      /\ io[1].addr = IF impl = "modern" THEN regs.isr_status
                      ELSE legacy_.bar0_base_ + VIRTIO_PCI_ISR_STATUS

(***************************************************************************)
(* C32: during discovery a slot's register address is stored only after    *)
(* the BAR it refers to was mapped successfully: a step that changes one   *)
(* of the four slots has called MapBar with success and the BAR holds a    *)
(* mapping; so a slot whose BAR fails to map stays unresolved.             *)
(***************************************************************************)
C32_SlotOnlyAfterMap ==
    [][(\/ regs'.common_cfg # regs.common_cfg
        \/ regs'.notify_base # regs.notify_base
        \/ regs'.isr_status # regs.isr_status
        \/ regs'.device_cfg # regs.device_cfg) =>
         /\ mapbar' # NoCall
         /\ mapbar'.st = ZX_OK
         /\ bar_'[mapbar'.bar].mmio_handle # ZX_HANDLE_INVALID]_vars

(***************************************************************************)
(* C33: concurrent DriverStatusAck and DriverStatusOk calls on one Backend *)
(* lose no update: the read-modify-write of the device status is atomic    *)
(* under backend_lock_.  While a call is between its read and its write    *)
(* the register still holds the value it read, and what it writes is that  *)
(* value with its own bits added, so the bits another call added before    *)
(* are kept.                                                               *)
(***************************************************************************)
C33_StatusUpdateAtomic ==
    \A c \in Callers :
      callers[c].op \in {"DriverStatusAck", "DriverStatusOk"} =>
        LET done == callers[c].done
            bits == IF callers[c].op = "DriverStatusOk" THEN VIRTIO_STATUS_DRIVER_OK
                    ELSE IF impl = "legacy"
                    THEN BitOr(VIRTIO_STATUS_ACKNOWLEDGE, VIRTIO_STATUS_DRIVER)
                    ELSE VIRTIO_STATUS_ACKNOWLEDGE
        IN /\ Len(callers[c].plan) = 2
           /\ Len(done) = 0 => N8(callers[c].plan[2].val) = BitOr(dev.status, bits)
           /\ Len(done) >= 1 =>
                /\ done[1].rw = "r"
                /\ N8(callers[c].plan[2].val) = BitOr(N8(done[1].val), bits)
           /\ Len(done) = 1 => N8(done[1].val) = dev.status
           /\ Len(done) = 2 =>
                /\ done[2].rw = "w"
                /\ dev.status = BitOr(N8(done[1].val), bits)

\* DriverStatusOk has written its bit on top of the bits DriverStatusAck,
\* which returned just before, had added
C33_Witness ==
    /\ \E c \in Callers :
         /\ callers[c].op = "DriverStatusOk"
         /\ Len(callers[c].done) = 2
         /\ N8(callers[c].done[1].val) = VIRTIO_STATUS_ACKNOWLEDGE
    /\ last.op = "DriverStatusAck"
    /\ impl = "modern"
    /\ dev.status = BitOr(VIRTIO_STATUS_ACKNOWLEDGE, VIRTIO_STATUS_DRIVER_OK)


(***************************************************************************)
(* Who takes backend_lock_, and from where.  A thread's frames are the     *)
(* functions it is inside, outermost first; a frame is "locked" when the   *)
(* function took backend_lock_ on entry (fbl::AutoLock, released when the  *)
(* function returns), "in" when it took nothing, and "blocked" when it     *)
(* asked for the mutex while its own thread was the holder: fbl::Mutex is  *)
(* not recursive, so that thread never runs again.  Thread 1 is the        *)
(* devhost thread, which binds the device and then drives it; thread 2 is  *)
(* the interrupt thread, which runs once Bind has returned.                *)
(***************************************************************************)
CapCallbacks == {"CommonCfgCallback", "NotifyCfgCallback", "IsrCfgCallback",
                 "DeviceCfgCallback", "PciCfgCallback"}

\* the callback PciModernBackend::Init invokes for a record of this type
CallbackOf(cfg_type) ==
    CASE cfg_type = COMMON_CFG -> "CommonCfgCallback"
      [] cfg_type = NOTIFY_CFG -> "NotifyCfgCallback"
      [] cfg_type = ISR_CFG -> "IsrCfgCallback"
      [] cfg_type = DEVICE_CFG -> "DeviceCfgCallback"
      [] cfg_type = PCI_CFG -> "PciCfgCallback"
      [] OTHER -> "none"

\* the Backend operations a driver reaches from its interrupt callbacks
CallbackOps == {"RingKick", "SetRing", "GetRingSize", "DeviceConfigRead"}

\* Init and MapBar taking the mutex themselves
TakesLock_InitToo(f) ==
    \/ f \in {"Bind", "Init", "MapBar"}
    \/ f = "IsrStatus" /\ impl = "legacy"
    \/ HoldsLock(f)

\* the functions that open with fbl::AutoLock lock(&backend_lock_)
TakesLock(f) ==
    \/ f = "Bind"
    \/ f = "IsrStatus" /\ impl = "legacy"
    \/ HoldsLock(f)

\* the functions called from inside f
Callees(f) ==
    CASE f = "Bind" -> {"Init"}
      [] f = "Init" ->
           IF impl = "modern"
           THEN {CallbackOf(caps[k].cfg_type) :
                   k \in {j \in 1..Len(caps) : caps[j].cap_vndr = kPciCapIdVendor}} \ {"none"}
           ELSE {}
      [] f \in CapCallbacks \ {"PciCfgCallback"} -> {"MapBar"}
      [] f = "IrqWorker" -> {"IsrStatus", "IrqRingUpdate", "IrqConfigChange"}
      [] f \in {"IrqRingUpdate", "IrqConfigChange"} -> CallbackOps
      [] OTHER -> {}

\* what a thread with no frame may enter
Roots(t) ==
    IF t = 1
    THEN IF frames.bound
         THEN CallbackOps \cup {"DriverStatusAck", "DriverStatusOk", "DeviceReset"}
         ELSE {"Bind"}
    ELSE IF frames.bound THEN {"IrqWorker"} ELSE {}

Top(t) == frames.stack[t][Len(frames.stack[t])]

Blocked(t) == frames.stack[t] # <<>> /\ Top(t).st = "blocked"

\* thread t calls f
EnterFn(t, f) ==
    /\ ~Blocked(t)
    /\ f \in (IF frames.stack[t] = <<>> THEN Roots(t) ELSE Callees(Top(t).fn))
    /\ IF TakesLock(f)
       THEN IF backend_lock_ = t
            THEN /\ frames' = [frames EXCEPT !.stack[t] = Append(@, [fn |-> f, st |-> "blocked"])]
                 /\ UNCHANGED backend_lock_
            ELSE /\ backend_lock_ = 0
                 /\ backend_lock_' = t
                 /\ frames' = [frames EXCEPT !.stack[t] = Append(@, [fn |-> f, st |-> "locked"])]
       ELSE /\ frames' = [frames EXCEPT !.stack[t] = Append(@, [fn |-> f, st |-> "in"])]
            /\ UNCHANGED backend_lock_
    /\ UNCHANGED <<discVars, regVars, lifeVars, irqVars, callers, bus, copyVars, pmo>>

\* the innermost function of thread t returns
LeaveFn(t) ==
    /\ frames.stack[t] # <<>>
    /\ ~Blocked(t)
    /\ frames' = [frames EXCEPT
                    !.stack[t] = SubSeq(@, 1, Len(@) - 1),
                    !.bound = @ \/ Top(t).fn = "Bind"]
    /\ backend_lock_' = IF Top(t).st = "locked" THEN 0 ELSE backend_lock_
    /\ UNCHANGED <<discVars, regVars, lifeVars, irqVars, callers, bus, copyVars, pmo>>

EnterCall == \E t \in Callers, f \in CapCallbacks \cup CallbackOps \cup
                       {"Bind", "Init", "MapBar", "IrqWorker", "IsrStatus", "IrqRingUpdate",
                        "IrqConfigChange", "DriverStatusAck", "DriverStatusOk", "DeviceReset"} :
               EnterFn(t, f)

ReturnCall == \E t \in Callers : LeaveFn(t)

NextCalls == EnterCall \/ ReturnCall

\* a constructed backend of either kind, before Bind
InitCalls ==
    \/ Init /\ gen = "backend" /\ tail = 0
    \/ InitLegacy

SpecCalls == InitCalls /\ [][NextCalls]_vars

\* the frames of thread t below position k hold the mutex
HeldBelow(t, k) == \E j \in 1..(k - 1) : frames.stack[t][j].st = "locked"

(***************************************************************************)
(* C34.  No thread asks for backend_lock_ while it is the holder: Bind     *)
(* holds the mutex for the whole of Init, and Init, the capability         *)
(* callbacks and MapBar take nothing; the interrupt thread holds no        *)
(* Backend mutex while IrqRingUpdate or IrqConfigChange runs, so an        *)
(* operation called from a callback gets the mutex or waits for another    *)
(* thread, never for itself.                                               *)
(***************************************************************************)
C34_NoSelfAcquire ==
    \A t \in Callers :
      \A k \in 1..Len(frames.stack[t]) :
        LET fr == frames.stack[t][k] IN
          /\ fr.st # "blocked"
          /\ fr.fn \in {"Init", "MapBar"} \cup CapCallbacks =>
               /\ fr.st = "in"
               /\ backend_lock_ = t
               /\ frames.stack[t][1] = [fn |-> "Bind", st |-> "locked"]
          /\ fr.fn \in {"IrqRingUpdate", "IrqConfigChange"} =>
               /\ ~HeldBelow(t, k + 1)
               /\ k = Len(frames.stack[t]) => backend_lock_ # t
          /\ fr.st = "locked" => backend_lock_ = t /\ ~HeldBelow(t, k)

\* the interrupt thread of a Legacy backend is inside RingKick, called from
\* the ring-update callback, and holds the mutex RingKick took
C34_Witness ==
    /\ impl = "legacy"
    /\ frames.stack[2] = << [fn |-> "IrqWorker", st |-> "in"],
                            [fn |-> "IrqRingUpdate", st |-> "in"],
                            [fn |-> "RingKick", st |-> "locked"] >>
    /\ backend_lock_ = 2


(***************************************************************************)
(* C35.  CopyDeviceConfig(buf, len) terminates for every len, lengths of   *)
(* 65536 and more included: the loop ends after len iterations because its *)
(* counter is the number of iterations made, which grows until it reaches  *)
(* len.                                                                    *)
(***************************************************************************)
C35_CopyTerminates ==
    copy.pc = "loop" =>
      /\ copy.i = copy.n
      /\ copy.n <= copy.len


(***************************************************************************)
(* C36.  A record of config type T resolves slot T and leaves the address  *)
(* of every other slot as it was; a PCI-passthrough record and a record of *)
(* a type the switch does not know change no slot and map no BAR.          *)
(***************************************************************************)
C36_RecordResolvesOwnSlot ==
    [][(gen = "backend" /\ pc = "walk" /\ pc' = "walk" /\ off # 0 /\ cap_reads' # cap_reads) =>
         LET T == caps[off].cfg_type IN
           /\ T # COMMON_CFG => regs'.common_cfg = regs.common_cfg
           /\ T # NOTIFY_CFG => regs'.notify_base = regs.notify_base
           /\ T # ISR_CFG => regs'.isr_status = regs.isr_status
           /\ T # DEVICE_CFG => regs'.device_cfg = regs.device_cfg
           /\ T \in {PCI_CFG, UNKNOWN_CFG} =>
                /\ regs' = regs
                /\ bar_' = bar_
                /\ map_ok' = map_ok
                /\ mapbar' = NoCall]_vars

\* Init has read a record of unknown type that names the unmapped BAR 1,
\* after the common-config record resolved its slot, and is at the list's end
C36_Witness ==
    /\ gen = "backend"
    /\ pc = "walk"
    /\ off = 0
    /\ Len(caps) = 2
    /\ caps[1].cfg_type = COMMON_CFG
    /\ caps[2].cfg_type = UNKNOWN_CFG
    /\ regs.common_cfg # 0
    /\ bar_[1].mmio_handle = ZX_HANDLE_INVALID
    /\ mapbar = NoCall


(***************************************************************************)
(* C37.  After Init has succeeded, notify_base_ and notify_off_mul_, which *)
(* RingKick combines into a queue's notify address, are the base and the   *)
(* multiplier of one and the same notify record of the list, whatever the  *)
(* list holds: several notify records, or one whose BAR cannot be mapped.  *)
(***************************************************************************)
C37_NotifyPairFromOneRecord ==
    (gen = "backend" /\ pc = "done" /\ ret = ZX_OK) =>
      \E k \in 1..Len(caps) :
        /\ caps[k].cap_vndr = kPciCapIdVendor
        /\ caps[k].cfg_type = NOTIFY_CFG
        /\ regs.notify_base = bar_[caps[k].bar].mmio_base + caps[k].offset
        /\ regs.notify_off_mul = caps[k].mul


(***************************************************************************)
(* PinnedMemoryObject.  pmo holds one call of Create and what it leaves:   *)
(* the VMO's pin count on the range, the calls of Pin and Unpin that       *)
(* succeeded, the Create-local unpin_vmo guard, the object's fields, and   *)
(* the IOMMU, which counts the Map and Unmap calls per device address.     *)
(* The device address the IOMMU hands out for the k-th Map is k.  pc is    *)
(* the place in Create: "Pin", "AllocArray", "AllocObject", "Map" (inside  *)
(* MapIntoIommu), "Mapped" and "MapFailed" (MapIntoIommu has returned),    *)
(* "returned".                                                             *)
(***************************************************************************)
ZX_ERR_NO_MEMORY == "ZX_ERR_NO_MEMORY"

\* what Pin and Map may fail with
PmoErrors == {ZX_ERR_NO_MEMORY, ZX_ERR_INVALID_ARGS}

\* vmo->Unpin(offset, size)
Unpin(p) == [p EXCEPT !.pin_count = @ - 1, !.unpins = @ + 1]

\* the guard left armed after the object took over the pin
CancelGuard_Forgotten(p) == p

\* unpin_vmo.cancel()
CancelGuard(p) == [p EXCEPT !.unpin_vmo = FALSE]

\* the unpin_vmo guard going out of scope
RunGuard(p) == IF p.unpin_vmo THEN [Unpin(p) EXCEPT !.unpin_vmo = FALSE] ELSE p

\* the IOMMU after one Unmap call for each of the first n extents
UnmapExtents(p, n) ==
    [k \in DOMAIN p.iommu |->
       [p.iommu[k] EXCEPT
          !.unmaps = @ + Cardinality({e \in 1..n : p.mapped_extents_[e] = k})]]

\* the extent count left as it was
UnmapFromIommu_KeepLen(p) ==
    IF p.mapped_extents_len_ = 0 THEN p
    ELSE [p EXCEPT !.iommu = UnmapExtents(p, IF p.is_contiguous_ THEN 1
                                              ELSE p.mapped_extents_len_)]

UnmapFromIommu(p) ==
    IF p.mapped_extents_len_ = 0 THEN p
    ELSE [p EXCEPT !.iommu = UnmapExtents(p, IF p.is_contiguous_ THEN 1
                                              ELSE p.mapped_extents_len_),
                   !.mapped_extents_len_ = 0]

\* ~PinnedMemoryObject
PmoDestructor(p) == [Unpin(UnmapFromIommu(p)) EXCEPT !.obj = "destroyed"]

\* iommu->Map succeeded and returned device address k
IommuMap(p, k) == [p EXCEPT !.iommu[k].maps = @ + 1]

\* Create is called on a range of n pages, physically contiguous or not
PmoCreate ==
    /\ pmo.pc = "idle"
    /\ \E n \in 1..MaxPages, c \in BOOLEAN :
         /\ n = 1 => c
         /\ pmo' = [pmo EXCEPT !.pc = "Pin", !.pages = n, !.contiguous = c]
    /\ UNCHANGED <<discVars, regVars, lifeVars, irqVars, lockVars, copyVars, frames>>

\* vmo->Pin, the contiguity Lookup, and the guard
PmoPin ==
    /\ pmo.pc = "Pin"
    /\ \/ \E e \in PmoErrors : pmo' = [pmo EXCEPT !.pc = "returned", !.st = e]
       \/ pmo' = [pmo EXCEPT !.pc = "AllocArray", !.pin_count = @ + 1, !.pins = @ + 1,
                             !.is_contiguous_ = pmo.contiguous, !.unpin_vmo = TRUE]
    /\ UNCHANGED <<discVars, regVars, lifeVars, irqVars, lockVars, copyVars, frames>>

\* new (&ac) Extent[num_pages]
PmoAllocArray ==
    /\ pmo.pc = "AllocArray"
    /\ \/ pmo' = [pmo EXCEPT !.pc = "AllocObject", !.page_array = TRUE]
       \/ pmo' = [RunGuard(pmo) EXCEPT !.pc = "returned", !.st = ZX_ERR_NO_MEMORY]
    /\ UNCHANGED <<discVars, regVars, lifeVars, irqVars, lockVars, copyVars, frames>>

\* new (&ac) PinnedMemoryObject(...), then unpin_vmo.cancel()
PmoAllocObject ==
    /\ pmo.pc = "AllocObject"
    /\ \/ pmo' = [CancelGuard(pmo) EXCEPT !.pc = "Map", !.obj = "live"]
       \/ pmo' = [RunGuard(pmo) EXCEPT !.pc = "returned", !.st = ZX_ERR_NO_MEMORY,
                                       !.page_array = FALSE]
    /\ UNCHANGED <<discVars, regVars, lifeVars, irqVars, lockVars, copyVars, frames>>

\* MapIntoIommu of a contiguous range: one Map call for the whole range
PmoMapContiguous ==
    /\ pmo.pc = "Map"
    /\ pmo.is_contiguous_
    /\ \/ pmo' = [IommuMap(pmo, 1) EXCEPT !.pc = "Mapped", !.mapped_extents_ = <<1>>,
                                          !.mapped_extents_len_ = 1]
       \/ \E e \in PmoErrors : pmo' = [pmo EXCEPT !.pc = "MapFailed", !.st = e]
    /\ UNCHANGED <<discVars, regVars, lifeVars, irqVars, lockVars, copyVars, frames>>

\* MapIntoIommu of a scattered range: IommuMapPage for the next page of the
\* Lookup; when the Lookup ends, the count is stored and, after a failure,
\* UnmapFromIommu is called
PmoMapPage ==
    /\ pmo.pc = "Map"
    /\ ~pmo.is_contiguous_
    /\ LET k == Len(pmo.mapped_extents_) + 1 IN
         \/ /\ k < pmo.pages
            /\ pmo' = [IommuMap(pmo, k) EXCEPT !.mapped_extents_ = Append(@, k)]
         \/ /\ k = pmo.pages
            /\ pmo' = [IommuMap(pmo, k) EXCEPT !.mapped_extents_ = Append(@, k),
                                               !.mapped_extents_len_ = k,
                                               !.pc = "Mapped"]
         \/ \E e \in PmoErrors :
              pmo' = [UnmapFromIommu([pmo EXCEPT !.mapped_extents_len_ = k - 1])
                        EXCEPT !.pc = "MapFailed", !.st = e]
    /\ UNCHANGED <<discVars, regVars, lifeVars, irqVars, lockVars, copyVars, frames>>

\* Create returns MapIntoIommu's error: the object it holds is destroyed
PmoCreateFail ==
    /\ pmo.pc = "MapFailed"
    /\ pmo' = [RunGuard(PmoDestructor(pmo)) EXCEPT !.pc = "returned", !.page_array = FALSE]
    /\ UNCHANGED <<discVars, regVars, lifeVars, irqVars, lockVars, copyVars, frames>>

\* Create hands the object out and returns ZX_OK
PmoCreateOk ==
    /\ pmo.pc = "Mapped"
    /\ pmo' = [RunGuard(pmo) EXCEPT !.pc = "returned", !.st = ZX_OK, !.out = TRUE]
    /\ UNCHANGED <<discVars, regVars, lifeVars, irqVars, lockVars, copyVars, frames>>

\* the owner of a created object destroys it
PmoDestroy ==
    /\ pmo.pc = "returned"
    /\ pmo.out
    /\ pmo.obj = "live"
    /\ pmo' = [PmoDestructor(pmo) EXCEPT !.page_array = FALSE]
    /\ UNCHANGED <<discVars, regVars, lifeVars, irqVars, lockVars, copyVars, frames>>

NextPmo ==
    \/ PmoCreate
    \/ PmoPin
    \/ PmoAllocArray
    \/ PmoAllocObject
    \/ PmoMapContiguous
    \/ PmoMapPage
    \/ PmoCreateFail
    \/ PmoCreateOk
    \/ PmoDestroy

\* no Create has been called; the virtio driver plays no part
InitPmo == InitBound /\ impl = "modern" /\ dev.accepts

SpecPmo == InitPmo /\ [][NextPmo]_vars

(***************************************************************************)
(* C38.  Create leaves the range pinned only when it returns ZX_OK.  On    *)
(* every failure after Pin succeeded (no memory for the extent array, no   *)
(* memory for the object, MapIntoIommu failing) the range has been         *)
(* unpinned exactly once when Create returns, and destroying a created     *)
(* object unpins it exactly once.                                          *)
(***************************************************************************)
C38_PinnedOnlyOnSuccess ==
    /\ pmo.unpins <= pmo.pins
    /\ pmo.pc = "returned" =>
         IF pmo.st = ZX_OK /\ pmo.obj = "live"
         THEN pmo.pin_count = 1 /\ pmo.unpins = 0
         ELSE pmo.pin_count = 0 /\ pmo.unpins = pmo.pins
    /\ pmo.obj = "destroyed" => pmo.unpins = 1

\* Create has returned the error of a Map call: the pin it took is undone
C38_Witness ==
    /\ pmo.pc = "returned"
    /\ pmo.st \in PmoErrors
    /\ pmo.obj = "destroyed"
    /\ pmo.pins = 1
    /\ pmo.unpins = 1
    /\ pmo.pin_count = 0

(***************************************************************************)
(* C39.  Every mapping MapIntoIommu makes is unmapped exactly once.  When  *)
(* MapIntoIommu fails part-way, the pages it had mapped are unmapped       *)
(* before it returns the error; UnmapFromIommu zeroes the extent count, so *)
(* the call made by the destructor afterwards unmaps nothing.              *)
(***************************************************************************)
C39_MappedUnmappedOnce ==
    \A k \in DOMAIN pmo.iommu :
      LET m == pmo.iommu[k] IN
        /\ m.unmaps <= m.maps
        /\ m.maps <= 1
        /\ (pmo.pc = "MapFailed" \/ pmo.obj = "destroyed") =>
             /\ m.unmaps = m.maps
             /\ pmo.mapped_extents_len_ = 0
        /\ (pmo.pc = "returned" /\ pmo.obj = "live") =>
             /\ m.unmaps = 0
             /\ m.maps = IF k <= pmo.mapped_extents_len_ THEN 1 ELSE 0

\* the third page of a scattered range failed to map; the two mapped pages
\* were unmapped once, and the destructor has run since
C39_Witness ==
    /\ pmo.obj = "destroyed"
    /\ pmo.st \in PmoErrors
    /\ ~pmo.is_contiguous_
    /\ pmo.mapped_extents_ = <<1, 2>>
    /\ pmo.iommu[1] = [maps |-> 1, unmaps |-> 1]
    /\ pmo.iommu[2] = [maps |-> 1, unmaps |-> 1]

====
